---- MODULE Spec2Model ----
(***************************************************************************)
(* Model of the UML chatbot back end (ChatbotBack_End):                    *)
(*   - AdvancedDiagramClassifier (Clasificador_diagrama.py): the four      *)
(*     signal extractors, the combiner and the per-user context store;     *)
(*   - JsonPuml / DecodeClass / DecodeUseCase (decoder.py): the PlantUML   *)
(*     generator;                                                          *)
(*   - build_json_for_decoder and classify_and_generate_diagram (main.py), *)
(*     chat_text and ws_chat (API_SERVICE.py), get_ai_response             *)
(*     (app/services/ai_client.py): the pipeline and its callers.          *)
(* Confidences are exact rationals <<numerator, denominator>> in lowest    *)
(* terms; the code computes them in binary floating point.                 *)
(***************************************************************************)
EXTENDS Integers, Sequences, FiniteSets, TLC

VARIABLES
    conversation_context,  \* AdvancedDiagramClassifier.conversation_context: user -> id of its dict, 0 = no entry
    heap,                  \* the context dicts themselves, by id ("free" = not allocated)
    ret,                   \* what the most recent completed analyze_conversation call returned
    call,                  \* the arguments of that call, and the last_intent it read from the context
    calls,                 \* number of calls started so far
    returned,              \* per user, the confidences returned to callers, in call order
    th,                    \* per worker thread, its position inside analyze_conversation and its locals
    diagram,               \* the diagram model (a dict) a request handler holds
    _code,                 \* JsonPuml._code of the object built from it: the text its constructor generated
    puml,                  \* what _puml_from_data returned for it
    process,               \* "running", or "exited" once sys.exit has ended the interpreter
    reply,                 \* what the most recent classify_and_generate_diagram call returned
    steps,                 \* the collaborators that call invoked, in the order it invoked them
    files                  \* output/output.puml and output/output.svg under the working directory

classifier_vars == <<conversation_context, heap, ret, call, calls, returned, th>>

generator_vars == <<diagram, _code, puml, process>>

pipeline_vars == <<reply, steps, files>>

vars == <<classifier_vars, generator_vars, pipeline_vars>>

(***************************************************************************)
(* Exact arithmetic on confidences.                                        *)
(***************************************************************************)
RECURSIVE GCD(_, _)
GCD(a, b) == IF b = 0 THEN a ELSE GCD(b, a % b)

Abs(n) == IF n < 0 THEN -n ELSE n

Rat(n, d) ==
    LET g == GCD(Abs(n), d)
    IN  IF n = 0 THEN <<0, 1>> ELSE <<n \div g, d \div g>>

Dec(n) == Rat(n, 100)

RAdd(a, b) == Rat(a[1] * b[2] + b[1] * a[2], a[2] * b[2])
RSub(a, b) == Rat(a[1] * b[2] - b[1] * a[2], a[2] * b[2])
RMul(a, b) == Rat(a[1] * b[1], a[2] * b[2])
RDivInt(a, k) == Rat(a[1], a[2] * k)
RLess(a, b) == a[1] * b[2] < b[1] * a[2]
RLeq(a, b) == a[1] * b[2] <= b[1] * a[2]
RMin(a, b) == IF RLess(b, a) THEN b ELSE a
RMax(a, b) == IF RLess(a, b) THEN b ELSE a

RECURSIVE RSum(_)
RSum(s) == IF s = <<>> THEN <<0, 1>> ELSE RAdd(s[1], RSum(Tail(s)))

\* round(x, 2) and f"{x:.2f}": the nearest hundredth, a tie going to the even one
Round2(x) ==
    LET q == (100 * x[1]) \div x[2]
        r == (100 * x[1]) % x[2]
    IN  IF 2 * r < x[2] THEN Dec(q)
        ELSE IF 2 * r > x[2] THEN Dec(q + 1)
        ELSE IF q % 2 = 0 THEN Dec(q) ELSE Dec(q + 1)

(***************************************************************************)
(* Texts.  A text is a set of phrases, standing for the phrases joined by  *)
(* ", "; the empty set is the empty string.                                *)
(***************************************************************************)
Vocabulary ==
    { "herencia",
      "clase",
      "objeto enum",
      "Actor Cliente",
      "el usuario puede pagar",
      "sistema web",
      "negocio venta marketing estrategia",
      "private int id",
      "objeto enum constructor usuario proceso",
      "programa api",
      "Usuario: atributos: ; métodos: ",
      "Usuario: atributos: ; métodos: crear()",
      "Usuario: atributos: ; métodos: crear(), eliminar()",
      "Usuario: atributos: id; métodos: ",
      "Usuario: atributos: id; métodos: crear()",
      "Usuario: atributos: id; métodos: crear(), eliminar()",
      "Usuario: atributos: id, nombre; métodos: ",
      "Usuario: atributos: id, nombre; métodos: crear()",
      "Usuario: atributos: id, nombre; métodos: crear(), eliminar()",
      "Actor Cliente interactúa con el sistema. Caso de uso: realizar pedido",
      "Actor Cliente. caso de uso realizar pedido",
      "clase de yoga los martes",
      "clase Pedido",
      "clase Pedido tiene atributos total y métodos pagar",
      "clases Usuario y Pedido",
      "Pedido hereda de Base" }

\* the words of each phrase and the characters between them, in order
Tokens ==
    "herencia"                                                              :> <<"herencia">> @@
    "clase"                                                                 :> <<"clase">> @@
    "objeto enum"                                                           :> <<"objeto", " ", "enum">> @@
    "Actor Cliente"                                                         :> <<"Actor", " ", "Cliente">> @@
    "el usuario puede pagar"                                                :> <<"el", " ", "usuario", " ", "puede", " ", "pagar">> @@
    "sistema web"                                                           :> <<"sistema", " ", "web">> @@
    "negocio venta marketing estrategia"                                    :> <<"negocio", " ", "venta", " ", "marketing", " ", "estrategia">> @@
    "private int id"                                                        :> <<"private", " ", "int", " ", "id">> @@
    "objeto enum constructor usuario proceso"                               :> <<"objeto", " ", "enum", " ", "constructor", " ", "usuario", " ", "proceso">> @@
    "programa api"                                                          :> <<"programa", " ", "api">> @@
    "Usuario: atributos: ; métodos: "                                       :> <<"Usuario", ":", " ", "atributos", ":", " ", ";", " ", "métodos", ":", " ">> @@
    "Usuario: atributos: ; métodos: crear()"                                :> <<"Usuario", ":", " ", "atributos", ":", " ", ";", " ", "métodos", ":", " ", "crear", "(", ")">> @@
    "Usuario: atributos: ; métodos: crear(), eliminar()"                    :> <<"Usuario", ":", " ", "atributos", ":", " ", ";", " ", "métodos", ":", " ", "crear", "(", ")", ",", " ", "eliminar", "(", ")">> @@
    "Usuario: atributos: id; métodos: "                                     :> <<"Usuario", ":", " ", "atributos", ":", " ", "id", ";", " ", "métodos", ":", " ">> @@
    "Usuario: atributos: id; métodos: crear()"                              :> <<"Usuario", ":", " ", "atributos", ":", " ", "id", ";", " ", "métodos", ":", " ", "crear", "(", ")">> @@
    "Usuario: atributos: id; métodos: crear(), eliminar()"                  :> <<"Usuario", ":", " ", "atributos", ":", " ", "id", ";", " ", "métodos", ":", " ", "crear", "(", ")", ",", " ", "eliminar", "(", ")">> @@
    "Usuario: atributos: id, nombre; métodos: "                             :> <<"Usuario", ":", " ", "atributos", ":", " ", "id", ",", " ", "nombre", ";", " ", "métodos", ":", " ">> @@
    "Usuario: atributos: id, nombre; métodos: crear()"                      :> <<"Usuario", ":", " ", "atributos", ":", " ", "id", ",", " ", "nombre", ";", " ", "métodos", ":", " ", "crear", "(", ")">> @@
    "Usuario: atributos: id, nombre; métodos: crear(), eliminar()"          :> <<"Usuario", ":", " ", "atributos", ":", " ", "id", ",", " ", "nombre", ";", " ", "métodos", ":", " ", "crear", "(", ")", ",", " ", "eliminar", "(", ")">> @@
    "Actor Cliente interactúa con el sistema. Caso de uso: realizar pedido" :> <<"Actor", " ", "Cliente", " ", "interactúa", " ", "con", " ", "el", " ", "sistema", ".", " ", "Caso", " ", "de", " ", "uso", ":", " ", "realizar", " ", "pedido">> @@
    "Actor Cliente. caso de uso realizar pedido"                            :> <<"Actor", " ", "Cliente", ".", " ", "caso", " ", "de", " ", "uso", " ", "realizar", " ", "pedido">> @@
    "clase de yoga los martes"                                              :> <<"clase", " ", "de", " ", "yoga", " ", "los", " ", "martes">> @@
    "clase Pedido"                                                          :> <<"clase", " ", "Pedido">> @@
    "clase Pedido tiene atributos total y métodos pagar"                    :> <<"clase", " ", "Pedido", " ", "tiene", " ", "atributos", " ", "total", " ", "y", " ", "métodos", " ", "pagar">> @@
    "clases Usuario y Pedido"                                               :> <<"clases", " ", "Usuario", " ", "y", " ", "Pedido">> @@
    "Pedido hereda de Base"                                                 :> <<"Pedido", " ", "hereda", " ", "de", " ", "Base">>

RECURSIVE Join(_)
\* "".join(tokens)
Join(tokens) == IF tokens = <<>> THEN "" ELSE Head(tokens) \o Join(Tail(tokens))

\* str.lower() on the words of the vocabulary that have upper-case letters
lower_case ==
    "Actor" :> "actor" @@ "Base" :> "base" @@ "Caso" :> "caso" @@ "Cliente" :> "cliente" @@
    "Pedido" :> "pedido" @@ "Usuario" :> "usuario"

\* str.lower() on a word or a character between words
lower(token) == IF token \in DOMAIN lower_case THEN lower_case[token] ELSE token

\* str.lower() on the phrases of the vocabulary
Lower ==
    [p \in Vocabulary |-> Join([k \in 1..Len(Tokens[p]) |-> lower(Tokens[p][k])])]

text_lower(text) == {Lower[p] : p \in text}

\* the terms of the classifier's word lists that occur, as substrings, in each lowered phrase
Substrings ==
    "herencia"                                                              :> {"herencia"} @@
    "clase"                                                                 :> {"clase"} @@
    "objeto enum"                                                           :> {"enum", "objeto"} @@
    "actor cliente"                                                         :> {"actor", "cliente"} @@
    "el usuario puede pagar"                                                :> {"usuario"} @@
    "sistema web"                                                           :> {"sistema", "tema"} @@
    "negocio venta marketing estrategia"                                    :> {"estrategia", "marketing", "negocio", "venta"} @@
    "private int id"                                                        :> {} @@
    "objeto enum constructor usuario proceso"                               :> {"constructor", "enum", "objeto", "proceso", "usuario"} @@
    "programa api"                                                          :> {"api", "programa"} @@
    "usuario: atributos: ; métodos: "                                       :> {"atributo", "método", "usuario"} @@
    "usuario: atributos: ; métodos: crear()"                                :> {"atributo", "método", "usuario"} @@
    "usuario: atributos: ; métodos: crear(), eliminar()"                    :> {"atributo", "método", "usuario"} @@
    "usuario: atributos: id; métodos: "                                     :> {"atributo", "método", "usuario"} @@
    "usuario: atributos: id; métodos: crear()"                              :> {"atributo", "método", "usuario"} @@
    "usuario: atributos: id; métodos: crear(), eliminar()"                  :> {"atributo", "método", "usuario"} @@
    "usuario: atributos: id, nombre; métodos: "                             :> {"atributo", "método", "usuario"} @@
    "usuario: atributos: id, nombre; métodos: crear()"                      :> {"atributo", "método", "usuario"} @@
    "usuario: atributos: id, nombre; métodos: crear(), eliminar()"          :> {"atributo", "método", "usuario"} @@
    "actor cliente interactúa con el sistema. caso de uso: realizar pedido" :> {"actor", "caso de uso", "cliente", "interactúa", "realiza", "sistema", "tema"} @@
    "actor cliente. caso de uso realizar pedido"                            :> {"actor", "caso de uso", "cliente", "realiza"} @@
    "clase de yoga los martes"                                              :> {"clase"} @@
    "clase pedido"                                                          :> {"clase"} @@
    "clase pedido tiene atributos total y métodos pagar"                    :> {"atributo", "clase", "método"} @@
    "clases usuario y pedido"                                               :> {"clase", "usuario"} @@
    "pedido hereda de base"                                                 :> {}

\* the listed terms for which `term in text_lower` holds
OccurringTerms(lowered) == UNION {Substrings[p] : p \in lowered}

\* sum(1 for word in words if word in text_lower)
CountOccurring(words, lowered) == Cardinality(words \cap OccurringTerms(lowered))

\* the patterns of _semantic_analysis that re.search finds in each lowered phrase
Searches ==
    "herencia"                                                              :> {} @@
    "clase"                                                                 :> {} @@
    "objeto enum"                                                           :> {} @@
    "actor cliente"                                                         :> {"usecase_1"} @@
    "el usuario puede pagar"                                                :> {"usecase_1", "usecase_3"} @@
    "sistema web"                                                           :> {"usecase_4"} @@
    "negocio venta marketing estrategia"                                    :> {} @@
    "private int id"                                                        :> {"class_2"} @@
    "objeto enum constructor usuario proceso"                               :> {"usecase_1"} @@
    "programa api"                                                          :> {} @@
    "usuario: atributos: ; métodos: "                                       :> {} @@
    "usuario: atributos: ; métodos: crear()"                                :> {} @@
    "usuario: atributos: ; métodos: crear(), eliminar()"                    :> {} @@
    "usuario: atributos: id; métodos: "                                     :> {} @@
    "usuario: atributos: id; métodos: crear()"                              :> {} @@
    "usuario: atributos: id; métodos: crear(), eliminar()"                  :> {} @@
    "usuario: atributos: id, nombre; métodos: "                             :> {} @@
    "usuario: atributos: id, nombre; métodos: crear()"                      :> {} @@
    "usuario: atributos: id, nombre; métodos: crear(), eliminar()"          :> {} @@
    "actor cliente interactúa con el sistema. caso de uso: realizar pedido" :> {"usecase_1"} @@
    "actor cliente. caso de uso realizar pedido"                            :> {"usecase_1", "usecase_2"} @@
    "clase de yoga los martes"                                              :> {} @@
    "clase pedido"                                                          :> {} @@
    "clase pedido tiene atributos total y métodos pagar"                    :> {} @@
    "clases usuario y pedido"                                               :> {"usecase_1"} @@
    "pedido hereda de base"                                                 :> {}

\* sum(1 for pattern in patterns if re.search(pattern, text_lower))
CountSearches(patterns, lowered) ==
    Cardinality(patterns \cap UNION {Searches[p] : p \in lowered})

(***************************************************************************)
(* AdvancedDiagramClassifier.__init__: the word lists.                     *)
(***************************************************************************)
class_domain ==
    { "clase", "atributo", "método", "herencia", "implementación", "interface", "enum",
      "propiedad", "encapsulamiento", "polimorfismo", "entidad", "objeto", "instancia",
      "constructor", "getter", "setter", "abstracto", "static", "final", "paquete",
      "importar", "miembro", "variable", "función", "operación", "signatura", "parámetro",
      "visibilidad", "modificador", "sobrescritura", "sobrecarga" }

usecase_domain ==
    { "actor", "usuario", "sistema", "funcionalidad", "interactúa", "realiza", "ejecuta",
      "escenario", "caso de uso", "requisito", "objetivo", "proceso", "flujo", "paso",
      "acción", "tarea", "rol", "responsabilidad", "permiso", "acceso", "operación",
      "actividad", "workflow", "procedimiento", "secuencia", "interacción" }

\* the keys of industry_context, in dict order
Industries == <<"software", "business", "education", "database">>

industry_context ==
    [ software  |-> { "código", "programa", "aplicación", "software", "desarrollo", "debug",
                      "compilar", "ejecutar", "framework", "librería", "api", "sdk", "ide",
                      "repositorio", "commit", "branch" },
      business  |-> { "negocio", "cliente", "venta", "marketing", "estrategia", "mercado",
                      "producto", "servicio", "empresa", "organización", "departamento",
                      "equipo", "proyecto", "recurso", "presupuesto" },
      education |-> { "curso", "estudiante", "profesor", "lección", "examen", "calificación",
                      "universidad", "colegio", "clase", "tema", "asignatura", "materia",
                      "plan de estudios", "currículo" },
      database  |-> { "tabla", "registro", "campo", "consulta", "sql", "entidad", "relación",
                      "clave", "índice", "transacción", "esquema" } ]

\* confidence_thresholds['with_context']
with_context == Dec(75)

(***************************************************************************)
(* An exception propagating out of a call, in place of its value.          *)
(***************************************************************************)
Raised(exception) == [raised |-> exception]

IsRaised(value) == "raised" \in DOMAIN value

(***************************************************************************)
(* _basic_intent_detection                                                 *)
(***************************************************************************)
decisive_terms ==
    [ diagrama_clases    |-> { "clase", "atributo", "método", "herencia", "polimorfismo",
                               "encapsulamiento", "interface", "implementación" },
      diagrama_casos_uso |-> { "actor", "caso de uso", "interactúa", "funcionalidad",
                               "escenario", "requisito funcional" } ]

\* any(term in text_lower for term in decisive_terms['diagrama_clases'])
decisive_class(text) ==
    decisive_terms.diagrama_clases \cap OccurringTerms(text_lower(text)) # {}

\* any(term in text_lower for term in decisive_terms['diagrama_casos_uso'])
decisive_usecase(text) ==
    decisive_terms.diagrama_casos_uso \cap OccurringTerms(text_lower(text)) # {}

\* lines 147-159: the ratios and the verdict they give; the division raises on a zero total
density_verdict(class_score, usecase_score) ==
    LET total_keywords == class_score + usecase_score
        difference     == Rat(Abs(class_score - usecase_score), total_keywords)
        intent         == IF class_score > usecase_score
                          THEN "diagrama_clases" ELSE "diagrama_casos_uso"
    IN  IF total_keywords = 0 THEN Raised("ZeroDivisionError")
        ELSE IF RLess(Dec(30), difference)
        THEN [intent |-> intent,
              confidence |-> RMin(RAdd(Dec(70), RMul(difference, Dec(30))), Dec(90)),
              method |-> "keyword_density"]
        ELSE IF RLess(Dec(15), difference)
        THEN [intent |-> intent,
              confidence |-> RAdd(Dec(60), RMul(difference, Dec(20))),
              method |-> "keyword_density"]
        ELSE [intent |-> "unknown", confidence |-> Dec(40), method |-> "basic_analysis"]

\* the fallback without the test of line 146: a variant under which C5 fails
keyword_density_unguarded(class_score, usecase_score) ==
    density_verdict(class_score, usecase_score)

\* lines 145-161: the keyword-density fallback of _basic_intent_detection
keyword_density(class_score, usecase_score) ==
    IF class_score + usecase_score > 0
    THEN density_verdict(class_score, usecase_score)
    ELSE [intent |-> "unknown", confidence |-> Dec(40), method |-> "basic_analysis"]

\* a variant that reports a decisive term at the keyword-density ceiling, 0.85, instead of
\* 0.92: C2 fails of it
basic_detection_weak_decisive(text) ==
    IF decisive_class(text) /\ ~decisive_usecase(text)
    THEN [intent |-> "diagrama_clases", confidence |-> Dec(85), method |-> "decisive_terms"]
    ELSE IF decisive_usecase(text) /\ ~decisive_class(text)
    THEN [intent |-> "diagrama_casos_uso", confidence |-> Dec(85), method |-> "decisive_terms"]
    ELSE keyword_density(CountOccurring(class_domain, text_lower(text)),
                         CountOccurring(usecase_domain, text_lower(text)))

_basic_intent_detection(text) ==
    LET lowered       == text_lower(text)
        class_score   == CountOccurring(class_domain, lowered)
        usecase_score == CountOccurring(usecase_domain, lowered)
    IN  IF decisive_class(text) /\ ~decisive_usecase(text)
        THEN [intent |-> "diagrama_clases", confidence |-> Dec(92), method |-> "decisive_terms"]
        ELSE IF decisive_usecase(text) /\ ~decisive_class(text)
        THEN [intent |-> "diagrama_casos_uso", confidence |-> Dec(92), method |-> "decisive_terms"]
        ELSE keyword_density(class_score, usecase_score)

(***************************************************************************)
(* _contextual_analysis                                                    *)
(***************************************************************************)
\* s[-n:]
LastN(s, n) == IF Len(s) <= n THEN s ELSE SubSeq(s, Len(s) - n + 1, Len(s))

\* the "historial consistente" boost: the last 3 confidences average above 0.7
history_boost(confidence_history) ==
    LET recent_confidences == LastN(confidence_history, 3)
    IN  IF Len(confidence_history) > 1
           /\ RLess(Dec(70), RDivInt(RSum(recent_confidences), Len(recent_confidences)))
        THEN Dec(10) ELSE Dec(0)

_contextual_analysis(text, context) ==
    LET previous_intent == context.last_intent
        relevant_terms  == IF previous_intent = "diagrama_clases"
                           THEN class_domain ELSE usecase_domain
        term_matches    == CountOccurring(relevant_terms, text_lower(text))
        confidence_boost == RAdd(RMin(Dec(40), Rat(term_matches * 10, 100)),
                                 history_boost(context.confidence_history))
        base_confidence == IF context.detected_domain # "None" THEN Dec(70) ELSE Dec(60)
    IN  IF context.detected_domain = "None" /\ context.interaction_count <= 1
        THEN [intent |-> "unknown", confidence |-> Dec(0), method |-> "no_context"]
        ELSE IF previous_intent # "None" /\ previous_intent # "unknown" /\ term_matches > 0
        THEN [intent |-> previous_intent,
              confidence |-> RMin(RAdd(base_confidence, confidence_boost), Dec(95)),
              method |-> "context_reinforcement"]
        ELSE [intent |-> "unknown", confidence |-> Dec(0), method |-> "context_analysis"]

(***************************************************************************)
(* _industry_analysis                                                      *)
(***************************************************************************)
industry_score(industry, text) == CountOccurring(industry_context[industry], text_lower(text))

\* max(industry_scores, key=industry_scores.get): the first key, in dict order, of maximal score
primary_industry(text) ==
    LET best(i) == /\ \A j \in 1..Len(Industries) :
                        industry_score(Industries[j], text) <= industry_score(Industries[i], text)
                   /\ \A j \in 1..(i - 1) :
                        industry_score(Industries[j], text) < industry_score(Industries[i], text)
    IN  Industries[CHOOSE i \in 1..Len(Industries) : best(i)]

industry_preference ==
    [ software |-> "diagrama_clases", business |-> "diagrama_casos_uso",
      education |-> "diagrama_clases", database |-> "diagrama_clases" ]

strong_industry_terms ==
    [ software  |-> {"código", "programa", "desarrollo"},
      business  |-> {"negocio", "cliente", "venta"},
      education |-> {"curso", "estudiante", "profesor"},
      database  |-> {"tabla", "registro", "consulta"} ]

_industry_analysis(text) ==
    LET primary   == primary_industry(text)
        max_score == industry_score(primary, text)
        strong_terms_count == CountOccurring(strong_industry_terms[primary], text_lower(text))
        base_confidence == RMin(Dec(70), Rat(max_score * 15, 100))
    IN  IF max_score > 0
        THEN [intent |-> industry_preference[primary],
              confidence |-> IF strong_terms_count > 0
                             THEN RAdd(base_confidence, Dec(10)) ELSE base_confidence,
              method |-> "industry_" \o primary]
        ELSE [intent |-> "unknown", confidence |-> Dec(0), method |-> "industry_analysis"]

(***************************************************************************)
(* _semantic_analysis                                                      *)
(***************************************************************************)
class_patterns == {"class_1", "class_2", "class_3", "class_4"}

usecase_patterns == {"usecase_1", "usecase_2", "usecase_3", "usecase_4"}

_semantic_analysis(text) ==
    LET class_pattern_matches   == CountSearches(class_patterns, text_lower(text))
        usecase_pattern_matches == CountSearches(usecase_patterns, text_lower(text))
    IN  IF class_pattern_matches > usecase_pattern_matches /\ class_pattern_matches > 0
        THEN [intent |-> "diagrama_clases",
              confidence |-> RMin(Dec(80), RAdd(Dec(50), Rat(class_pattern_matches * 10, 100))),
              method |-> "semantic_patterns"]
        ELSE IF usecase_pattern_matches > class_pattern_matches /\ usecase_pattern_matches > 0
        THEN [intent |-> "diagrama_casos_uso",
              confidence |-> RMin(Dec(80), RAdd(Dec(50), Rat(usecase_pattern_matches * 10, 100))),
              method |-> "semantic_patterns"]
        ELSE [intent |-> "unknown", confidence |-> Dec(0), method |-> "semantic_analysis"]

(***************************************************************************)
(* _combine_analyses                                                       *)
(***************************************************************************)
\* a variant whose filter is `> 0.4`, which the weakest basic verdict does not pass: C27
\* fails of it
valid_analyses_above_040(analyses) == SelectSeq(analyses, LAMBDA a : RLess(Dec(40), a.confidence))

\* valid_analyses = [a for a in analyses if a['confidence'] > 0.3]
valid_analyses(analyses) == SelectSeq(analyses, LAMBDA a : RLess(Dec(30), a.confidence))

RECURSIVE ConfidencesOf(_, _)
ConfidencesOf(valid, intent) ==
    IF valid = <<>> THEN <<>>
    ELSE IF valid[1].intent = intent
         THEN <<valid[1].confidence>> \o ConfidencesOf(Tail(valid), intent)
         ELSE ConfidencesOf(Tail(valid), intent)

\* intent_scores: intent -> the confidences of the valid analyses that voted for it
intent_scores(valid) ==
    [intent \in {valid[k].intent : k \in DOMAIN valid} |-> ConfidencesOf(valid, intent)]

\* the boost for several coinciding analyses
multi_support_boost(n) ==
    IF n >= 3 THEN Dec(15) ELSE IF n >= 2 THEN Dec(10) ELSE Dec(0)

\* a variant that gives the follow-up boost to every group instead of the group of the last
\* intent: C16 fails of it
avg_scores_boost_all(scores, context, is_follow_up) ==
    [intent \in DOMAIN scores |->
        RAdd(RAdd(RDivInt(RSum(scores[intent]), Len(scores[intent])),
                  IF is_follow_up THEN Dec(15) ELSE Dec(0)),
             multi_support_boost(Len(scores[intent])))]

\* avg_scores after the follow-up boost and the multi-support boost
avg_scores(scores, context, is_follow_up) ==
    [intent \in DOMAIN scores |->
        RAdd(RAdd(RDivInt(RSum(scores[intent]), Len(scores[intent])),
                  IF is_follow_up /\ context.last_intent = intent THEN Dec(15) ELSE Dec(0)),
             multi_support_boost(Len(scores[intent])))]

\* sorted_intents[0]
best_intent(avg) ==
    CHOOSE intent \in DOMAIN avg : \A other \in DOMAIN avg : RLeq(avg[other], avg[intent])

\* sorted_intents[1][1] if len(sorted_intents) > 1 else 0.0
second_score(avg) ==
    LET rest == DOMAIN avg \ {best_intent(avg)}
    IN  IF rest = {} THEN Dec(0)
        ELSE avg[CHOOSE intent \in rest : \A other \in rest : RLeq(avg[other], avg[intent])]

\* a variant of the rule that asks for both conditions at once: C1 fails of it
is_ambiguous_conjunctive(score_diff, best_score) ==
    RLess(score_diff, Dec(8)) /\ RLess(best_score, Dec(55))

\* line 329: the ambiguity rule
is_ambiguous(score_diff, best_score) ==
    RLess(score_diff, Dec(8)) \/ RLess(best_score, Dec(55))

\* the list ambiguity_reason, before ",".join: <<name, value formatted to 2 decimals>>
ambiguity_reason(score_diff, best_score) ==
    (IF RLess(score_diff, Dec(8)) THEN << <<"small_score_diff", Round2(score_diff)>> >> ELSE <<>>)
    \o (IF RLess(best_score, Dec(55)) THEN << <<"low_best_score", Round2(best_score)>> >> ELSE <<>>)

\* a variant without the 0.95 cap on the best score: C19 fails of it
best_confidence_uncapped(best_score, supporting_analyses) ==
    LET two == IF supporting_analyses >= 2 THEN RMin(Dec(100), RAdd(best_score, Dec(5)))
               ELSE best_score
    IN  IF supporting_analyses >= 3 THEN RMin(Dec(100), RAdd(two, Dec(3))) ELSE two

\* the final confidence of a clear verdict
best_confidence(best_score, supporting_analyses) ==
    LET capped == RMin(best_score, Dec(95))
        two    == IF supporting_analyses >= 2 THEN RMin(Dec(100), RAdd(capped, Dec(5))) ELSE capped
    IN  IF supporting_analyses >= 3 THEN RMin(Dec(100), RAdd(two, Dec(3))) ELSE two

_combine_analyses(basic, contextual, industry, semantic, context, is_follow_up) ==
    LET valid      == valid_analyses(<<basic, contextual, industry, semantic>>)
        scores     == intent_scores(valid)
        avg        == avg_scores(scores, context, is_follow_up)
        best       == best_intent(avg)
        best_score == avg[best]
        score_diff == RSub(best_score, second_score(avg))
    IN  IF valid = <<>>
        THEN [intent |-> "unknown", confidence |-> Dec(30),
              method |-> "low_confidence_combination", supporting_analyses |-> 0]
        ELSE IF DOMAIN avg = {}
        THEN [intent |-> "unknown", confidence |-> Dec(40),
              method |-> "fallback", supporting_analyses |-> 0]
        ELSE IF is_ambiguous(score_diff, best_score)
        THEN [intent |-> "ambiguous", confidence |-> Round2(best_score),
              method |-> "ambiguous_detection", supporting_analyses |-> Len(valid),
              ambiguity_reason |-> ambiguity_reason(score_diff, best_score),
              analysis_breakdown |-> [basic |-> basic, contextual |-> contextual,
                                      industry |-> industry, semantic |-> semantic,
                                      avg_scores |-> avg]]
        ELSE [intent |-> best,
              confidence |-> best_confidence(best_score, Len(scores[best])),
              method |-> "combined_analysis", supporting_analyses |-> Len(scores[best]),
              analysis_breakdown |-> [basic |-> basic, contextual |-> contextual,
                                      industry |-> industry, semantic |-> semantic]]

(***************************************************************************)
(* _update_conversation_context, as a function of the context dict         *)
(***************************************************************************)
\* program constant: the number of confidences kept in confidence_history
HistoryCap == 10

\* method.startswith('industry_')
StartsWithIndustry(method) ==
    method \in {"industry_" \o Industries[k] : k \in 1..Len(Industries)} \cup {"industry_analysis"}

\* method.replace('industry_', '')
StripIndustry(method) ==
    IF method = "industry_analysis" THEN "analysis"
    ELSE CHOOSE industry \in {Industries[k] : k \in 1..Len(Industries)} :
            method = "industry_" \o industry

\* a variant that records detected_domain whatever the confidence: C17 fails of it
record_intent_any_confidence(context, result) ==
    [context EXCEPT !.detected_domain = result.intent, !.last_intent = result.intent]

\* lines 385-388: detected_domain and last_intent
record_intent(context, result) ==
    [context EXCEPT !.detected_domain = IF RLess(with_context, result.confidence)
                                        THEN result.intent ELSE @,
                    !.last_intent = result.intent]

\* a variant that keeps the first 10 confidences instead of the last 10: C3 fails of it
record_confidence_keep_oldest(context, result) ==
    [context EXCEPT !.confidence_history =
        LET appended == Append(@, result.confidence)
        IN  IF Len(appended) > HistoryCap THEN SubSeq(appended, 1, HistoryCap) ELSE appended]

\* lines 389-393: append the confidence, keep the last 10
record_confidence(context, result) ==
    [context EXCEPT !.confidence_history =
        LET appended == Append(@, result.confidence)
        IN  IF Len(appended) > HistoryCap THEN LastN(appended, HistoryCap) ELSE appended]

\* lines 395-398: industry_hints
record_industry(context, industry_analysis) ==
    IF StartsWithIndustry(industry_analysis.method)
    THEN [context EXCEPT !.industry_hints = @ \cup {StripIndustry(industry_analysis.method)}]
    ELSE context

_update_conversation_context(context, result, industry_analysis) ==
    record_industry(record_confidence(record_intent(context, result), result), industry_analysis)

(***************************************************************************)
(* The context store and the inputs.                                       *)
(***************************************************************************)
Users == {"default", "web_user"}

Threads == {"w1", "w2"}

\* enough dict ids for one dict per user and one orphaned dict per thread
ObjIds == 1..(Cardinality(Users) + Cardinality(Threads))

\* total number of analyze_conversation calls in a run of Spec
MaxCalls == 3

\* the input texts of Spec
Texts ==
    { {},
      {"herencia"},
      {"Actor Cliente"},
      {"objeto enum"},
      {"objeto enum constructor usuario proceso"},
      {"clase", "Actor Cliente"},
      {"programa api"},
      {"private int id", "programa api"},
      {"clase", "el usuario puede pagar", "sistema web", "negocio venta marketing estrategia"},
      {"objeto enum", "Actor Cliente", "el usuario puede pagar", "sistema web",
       "negocio venta marketing estrategia"} }

\* a heap cell that holds no dict
NoDict == [free |-> TRUE]

\* the dict analyze_conversation creates for a new user (lines 86-93)
NewContext ==
    [ messages |-> <<>>, detected_domain |-> "None", confidence_history |-> <<>>,
      last_intent |-> "None", industry_hints |-> {}, interaction_count |-> 0 ]

\* the ids some thread's local variable `context` still refers to
HeldIds == {th[w].context : w \in Threads} \ {0}

\* a variant in which a new dict takes the lowest id whether or not it is in use, so that two
\* users' entries can be one object: C7 fails of it
LeastId ==
    CHOOSE id \in ObjIds : \A other \in ObjIds : id <= other

\* the id a newly created dict gets: the least one nothing refers to
FreshId ==
    CHOOSE id \in ObjIds :
        /\ id \notin HeldIds /\ \A u \in Users : conversation_context[u] # id
        /\ \A other \in ObjIds :
              (other \notin HeldIds /\ \A u \in Users : conversation_context[u] # other)
                 => id <= other

\* conversation_context.get(user_id): the user's dict, or None
get_user_context(user_id) ==
    IF conversation_context[user_id] = 0 THEN NoDict ELSE heap[conversation_context[user_id]]

\* a variant that keeps only the last two messages: C25 fails of it
record_message_trimmed(context, text) ==
    [context EXCEPT !.messages = LastN(Append(@, text), 2), !.interaction_count = @ + 1]

\* lines 95-97: context['messages'].append(text); context['interaction_count'] += 1
record_message(context, text) ==
    [context EXCEPT !.messages = Append(@, text), !.interaction_count = @ + 1]

\* lines 99-108: the four analyses, in call order, and their combination, on the context
\* as it now is; an exception raised by one of them ends the call
final_result(context, text, is_follow_up) ==
    CHOOSE result \in
        { IF IsRaised(basic) THEN basic
          ELSE IF IsRaised(contextual) THEN contextual
          ELSE IF IsRaised(industry) THEN industry
          ELSE IF IsRaised(semantic) THEN semantic
          ELSE _combine_analyses(basic, contextual, industry, semantic, context, is_follow_up) :
            basic \in {_basic_intent_detection(text)},
            contextual \in {_contextual_analysis(text, context)},
            industry \in {_industry_analysis(text)},
            semantic \in {_semantic_analysis(text)} } : TRUE

\* a thread that is not inside analyze_conversation
Idle == [pc |-> "idle", context |-> 0]

NoResult == [intent |-> "none"]

NoCall == [user_id |-> "none"]

\* no diagram received yet
NoDiagram == [none |-> TRUE]

\* None, where a text would be
NoCode == [none |-> TRUE]

\* neither output file exists
NoFiles == [puml |-> "None", svg |-> "None"]

\* no classify_and_generate_diagram call has returned yet
NoReply == [none |-> TRUE]

Init ==
    /\ conversation_context = [u \in Users |-> 0]
    /\ heap = [id \in ObjIds |-> NoDict]
    /\ ret = NoResult
    /\ call = NoCall
    /\ calls = 0
    /\ returned = [u \in Users |-> <<>>]
    /\ th = [w \in Threads |-> Idle]
    /\ diagram = NoDiagram
    /\ _code = NoCode
    /\ puml = NoCode
    /\ process = "running"
    /\ reply = NoReply
    /\ steps = <<>>
    /\ files = NoFiles

(***************************************************************************)
(* analyze_conversation, run from entry to return without interruption.    *)
(***************************************************************************)
analyze_conversation(user_id, text, is_follow_up) ==
    \E id \in {IF conversation_context[user_id] = 0
               THEN FreshId ELSE conversation_context[user_id]} :
    \E context \in {record_message(IF conversation_context[user_id] = 0
                                   THEN NewContext ELSE heap[id], text)} :
    \E industry_analysis \in {_industry_analysis(text)} :
    \E result \in {final_result(context, text, is_follow_up)} :
        /\ \A w \in Threads : th[w].pc = "idle"
        /\ conversation_context' = [conversation_context EXCEPT ![user_id] = id]
        /\ heap' = [heap EXCEPT ![id] =
                        IF IsRaised(result) THEN context
                        ELSE _update_conversation_context(context, result, industry_analysis)]
        /\ ret' = result
        /\ call' = [user_id |-> user_id, text |-> text, is_follow_up |-> is_follow_up,
                    last_intent |-> context.last_intent, context |-> context]
        /\ calls' = calls + 1
        /\ returned' = IF IsRaised(result) THEN returned
                       ELSE [returned EXCEPT ![user_id] = Append(@, result.confidence)]
        /\ UNCHANGED <<th, generator_vars>>

\* classify_diagram_type(description, user_id)
classify_diagram_type(description, user_id) ==
    analyze_conversation(user_id, description, FALSE)

\* Spec follows one conversation: every call is made for this user
Caller == "default"

AnalyzeStep ==
    /\ calls < MaxCalls
    /\ \E text \in Texts, is_follow_up \in BOOLEAN :
          analyze_conversation(Caller, text, is_follow_up)
    /\ UNCHANGED pipeline_vars

ClassifyStep ==
    /\ calls < MaxCalls
    /\ \E description \in Texts : classify_diagram_type(description, Caller)
    /\ UNCHANGED pipeline_vars

Next == AnalyzeStep \/ ClassifyStep

Spec == Init /\ [][Next]_vars

(***************************************************************************)
(* A long conversation of one user through classify_diagram_type.          *)
(***************************************************************************)
\* number of calls in a run of SpecHistory
MaxHistoryCalls == 15

\* the input texts of SpecHistory
HistoryTexts == { {}, {"herencia"} }

HistoryStep ==
    /\ calls < MaxHistoryCalls
    /\ \E description \in HistoryTexts : classify_diagram_type(description, Caller)
    /\ UNCHANGED pipeline_vars

SpecHistory == Init /\ [][HistoryStep]_vars

(***************************************************************************)
(* analyze_conversation called from worker threads: get_ai_response hands  *)
(* classify_and_generate_diagram to asyncio.to_thread, and the module-level*)
(* diagram_classifier is shared.  One step per access to the shared dicts; *)
(* nothing in the class takes a lock.                                      *)
(***************************************************************************)
\* total number of calls the threads make in a run of SpecThreads
MaxThreadCalls == 2

\* total number of calls the threads make in a run of SpecUsers
MaxUserCalls == 4

\* the messages the threads classify
ThreadTexts == { {"herencia"}, {"Actor Cliente"} }

\* reference counting: a dict that neither the store nor a thread's local refers to is gone
collect(dicts, store, locals) ==
    [id \in ObjIds |->
        IF \/ \E u \in Users : store[u] = id
           \/ \E w \in Threads : locals[w].context = id
        THEN dicts[id] ELSE NoDict]

\* line 85: the call is entered and `user_id not in self.conversation_context` evaluated
Enter(w, user_id, text, is_follow_up) ==
    /\ th[w].pc = "idle"
    /\ th' = [th EXCEPT ![w] =
                [ pc |-> IF conversation_context[user_id] = 0 THEN "create" ELSE "lookup",
                  user_id |-> user_id, text |-> text, is_follow_up |-> is_follow_up,
                  context |-> 0, interaction_count |-> 0, last_intent |-> "None",
                  result |-> NoResult, entry |-> get_user_context(user_id) ]]
    /\ calls' = calls + 1
    /\ UNCHANGED <<conversation_context, heap, ret, call, returned, generator_vars, pipeline_vars>>

\* lines 86-93: self.conversation_context[user_id] = {...}, whatever the entry now holds
CreateContext(w) ==
    /\ th[w].pc = "create"
    /\ \E id \in {FreshId} :
          /\ conversation_context' = [conversation_context EXCEPT ![th[w].user_id] = id]
          /\ heap' = collect([heap EXCEPT ![id] = NewContext], conversation_context', th)
    /\ th' = [th EXCEPT ![w].pc = "lookup"]
    /\ UNCHANGED <<ret, call, calls, returned, generator_vars, pipeline_vars>>

\* line 95: context = self.conversation_context[user_id]
LookupContext(w) ==
    /\ th[w].pc = "lookup"
    /\ th' = [th EXCEPT ![w].pc = "append",
                        ![w].context = conversation_context[th[w].user_id]]
    /\ UNCHANGED <<conversation_context, heap, ret, call, calls, returned, generator_vars, pipeline_vars>>

\* line 96: context['messages'].append(text)
AppendMessage(w) ==
    /\ th[w].pc = "append"
    /\ heap' = [heap EXCEPT ![th[w].context].messages = Append(@, th[w].text)]
    /\ th' = [th EXCEPT ![w].pc = "load"]
    /\ UNCHANGED <<conversation_context, ret, call, calls, returned, generator_vars, pipeline_vars>>

\* line 97, the read of context['interaction_count'] += 1
LoadCount(w) ==
    /\ th[w].pc = "load"
    /\ th' = [th EXCEPT ![w].pc = "store",
                        ![w].interaction_count = heap[th[w].context].interaction_count]
    /\ UNCHANGED <<conversation_context, heap, ret, call, calls, returned, generator_vars, pipeline_vars>>

\* line 97, the write of context['interaction_count'] += 1
StoreCount(w) ==
    /\ th[w].pc = "store"
    /\ heap' = [heap EXCEPT ![th[w].context].interaction_count = th[w].interaction_count + 1]
    /\ th' = [th EXCEPT ![w].pc = "analyse"]
    /\ UNCHANGED <<conversation_context, ret, call, calls, returned, generator_vars, pipeline_vars>>

\* lines 100-108: the four analyses and their combination, reading the dict `context` refers to
Analyse(w) ==
    /\ th[w].pc = "analyse"
    /\ th' = [th EXCEPT ![w].pc = "update",
                        ![w].last_intent = heap[th[w].context].last_intent,
                        ![w].result = final_result(heap[th[w].context], th[w].text,
                                                   th[w].is_follow_up)]
    /\ UNCHANGED <<conversation_context, heap, ret, call, calls, returned, generator_vars, pipeline_vars>>

\* lines 111-113: _update_conversation_context looks the user's entry up again (line 382) and
\* updates that dict; the call returns and its local `context` is dropped
UpdateAndReturn(w) ==
    /\ th[w].pc = "update"
    /\ th' = [th EXCEPT ![w] = Idle]
    /\ \E id \in {conversation_context[th[w].user_id]} :
          heap' = collect(IF IsRaised(th[w].result) THEN heap
                          ELSE [heap EXCEPT ![id] =
                                   _update_conversation_context(@, th[w].result,
                                                                _industry_analysis(th[w].text))],
                          conversation_context, th')
    /\ ret' = th[w].result
    /\ call' = [user_id |-> th[w].user_id, text |-> th[w].text,
                is_follow_up |-> th[w].is_follow_up, last_intent |-> th[w].last_intent]
    /\ returned' = IF IsRaised(th[w].result) THEN returned
                   ELSE [returned EXCEPT ![th[w].user_id] = Append(@, th[w].result.confidence)]
    /\ UNCHANGED <<conversation_context, calls, generator_vars, pipeline_vars>>

\* main.py line 223, reached through asyncio.to_thread: analyze_conversation(user_id, text)
classify_and_generate_diagram(w, text, user_id) ==
    Enter(w, user_id, text, FALSE)

\* get_ai_response(user_message, user_id) starts a worker thread
get_ai_response(w) ==
    /\ calls < MaxThreadCalls
    /\ \E user_message \in ThreadTexts, user_id \in Users :
          classify_and_generate_diagram(w, user_message, user_id)

NextThreads ==
    \E w \in Threads :
        \/ get_ai_response(w)
        \/ CreateContext(w)
        \/ LookupContext(w)
        \/ AppendMessage(w)
        \/ LoadCount(w)
        \/ StoreCount(w)
        \/ Analyse(w)
        \/ UpdateAndReturn(w)

SpecThreads == Init /\ [][NextThreads]_vars

\* each thread serves one user of its own
UserOf == [w \in Threads |-> IF w = "w1" THEN "default" ELSE "web_user"]

get_ai_response_own_user(w) ==
    /\ calls < MaxUserCalls
    /\ \E user_message \in ThreadTexts :
          classify_and_generate_diagram(w, user_message, UserOf[w])

NextUsers ==
    \E w \in Threads :
        \/ get_ai_response_own_user(w)
        \/ CreateContext(w)
        \/ LookupContext(w)
        \/ AppendMessage(w)
        \/ LoadCount(w)
        \/ StoreCount(w)
        \/ Analyse(w)
        \/ UpdateAndReturn(w)

SpecUsers == Init /\ [][NextUsers]_vars

(***************************************************************************)
(* Conversations of two users with clear_user_context and                  *)
(* get_user_context between the calls, one caller at a time.               *)
(***************************************************************************)
\* total number of analyze_conversation calls in a run of SpecClear
MaxClearCalls == 4

\* the input texts of SpecClear
ClearTexts == { {"herencia"}, {"Actor Cliente"} }

\* a variant that empties every user's entry: C26 fails of it
clear_every_context(user_id) ==
    /\ conversation_context' = [u \in Users |-> 0]
    /\ heap' = collect(heap, conversation_context', th)
    /\ ret' = [value |-> "None"]
    /\ call' = [user_id |-> user_id, cleared |-> TRUE]
    /\ UNCHANGED <<calls, returned, th, generator_vars>>

\* lines 417-420: del self.conversation_context[user_id] if the user has an entry; the
\* dict nothing refers to any more is gone
clear_user_context(user_id) ==
    /\ conversation_context' =
          IF conversation_context[user_id] # 0
          THEN [conversation_context EXCEPT ![user_id] = 0]
          ELSE conversation_context
    /\ heap' = collect(heap, conversation_context', th)
    /\ ret' = [value |-> "None"]
    /\ call' = [user_id |-> user_id, cleared |-> TRUE]
    /\ UNCHANGED <<calls, returned, th, generator_vars>>

\* lines 413-415: get_user_context returns self.conversation_context.get(user_id)
GetUserContext(user_id) ==
    /\ ret' = [value |-> get_user_context(user_id)]
    /\ call' = [user_id |-> user_id, got |-> TRUE]
    /\ UNCHANGED <<conversation_context, heap, calls, returned, th, generator_vars>>

AnalyzeAnyUser ==
    /\ calls < MaxClearCalls
    /\ \E user_id \in Users, text \in ClearTexts, is_follow_up \in BOOLEAN :
          analyze_conversation(user_id, text, is_follow_up)
    /\ UNCHANGED pipeline_vars

ClearStep ==
    /\ \E user_id \in Users : clear_user_context(user_id)
    /\ UNCHANGED pipeline_vars

GetStep ==
    /\ \E user_id \in Users : GetUserContext(user_id)
    /\ UNCHANGED pipeline_vars

NextClear == AnalyzeAnyUser \/ ClearStep \/ GetStep

SpecClear == Init /\ [][NextClear]_vars

(***************************************************************************)
(* decoder.py: PlantUML text from a diagram model.  A dict is a record     *)
(* that holds the keys present; a text is the sequence of its lines, the   *)
(* line ends being the "\n" the code writes after every line but the last. *)
(***************************************************************************)
\* dict.get(key, default)
Get(d, key, default) == IF key \in DOMAIN d THEN d[key] ELSE default

\* a text built without error
Code(lines) == [text |-> lines]

IsCode(value) == "text" \in DOMAIN value

\* print(message); sys.exit(1): SystemExit leaves every `except Exception` behind
SysExit(message) == [exit |-> 1, printed |-> message]

IsExit(value) == "exit" \in DOMAIN value

RECURSIVE Flatten(_)
\* the lines of several pieces, in order
Flatten(pieces) == IF pieces = <<>> THEN <<>> ELSE Head(pieces) \o Flatten(Tail(pieces))

\* DecodeClass._visibilities
_visibilities ==
    ("private" :> "-") @@ ("protected" :> "#") @@ ("package private" :> "~") @@ ("public" :> "+")

\* DecodeClass._relations_type
_relations_type ==
    ("inheritance" :> "<|--") @@ ("composition" :> "*--") @@ ("aggregation" :> "o--")
    @@ ("association" :> "--") @@ ("instantiation" :> "..|>") @@ ("realization" :> "<|..")

\* line 456
attribute_line(elementName, attribute) ==
    elementName \o " : "
    \o Get(_visibilities, Get(attribute, "visibility", ""), "") \o " "
    \o (IF Get(attribute, "isStatic", FALSE) THEN "{isStatic}" ELSE "") \o " "
    \o (IF Get(attribute, "isFinal", FALSE) THEN "{final}" ELSE "") \o " "
    \o Get(attribute, "type", "") \o " " \o Get(attribute, "name", "")

RECURSIVE params_text(_)
\* lines 466-470: "type name " per parameter, less the last space
params_text(params) ==
    IF params = <<>> THEN ""
    ELSE Get(Head(params), "type", "") \o " " \o Get(Head(params), "name", "")
         \o (IF Tail(params) = <<>> THEN "" ELSE " " \o params_text(Tail(params)))

\* lines 460-470
method_line(elementName, method) ==
    elementName \o " : "
    \o Get(_visibilities, Get(method, "visibility", "public"), "+") \o " "
    \o (IF Get(method, "isAbstract", FALSE) THEN "{abstract}" ELSE "") \o " "
    \o Get(method, "returnType", "void") \o " "
    \o Get(method, "name", "") \o "(" \o params_text(Get(method, "params", <<>>)) \o ")"

\* lines 477-484: the label of one end, from mult[index] (counted from 1 here); a multiplicity
\* that is a list is [list |-> <<...>>], one that is not is [text |-> ...], null is "null"
multiplicity_end(relation, index) ==
    IF "multiplicity" \in DOMAIN relation /\ "list" \in DOMAIN relation.multiplicity
    THEN IF Len(relation.multiplicity.list) >= index /\ relation.multiplicity.list[index] # "null"
         THEN "\"" \o relation.multiplicity.list[index] \o "\"" ELSE ""
    ELSE ""

\* a variant that reads the labels of both ends from neighbouring positions: C21 fails of it
relation_line_adjacent_ends(relation) ==
    Get(relation, "source", "") \o " " \o multiplicity_end(relation, 1) \o " "
    \o Get(_relations_type, Get(relation, "type", ""), "--") \o " "
    \o multiplicity_end(relation, 2) \o " " \o Get(relation, "target", "")

\* lines 474-486
relation_line(relation) ==
    Get(relation, "source", "") \o " " \o multiplicity_end(relation, 1) \o " "
    \o Get(_relations_type, Get(relation, "type", ""), "--") \o " "
    \o multiplicity_end(relation, 4) \o " " \o Get(relation, "target", "")

\* lines 443-486: one pass of the loop over declaringElements
element_code(element, relationShips) ==
    << Get(element, "type", "") \o " " \o Get(element, "name", "") >>
    \o [k \in 1..Len(Get(element, "attributes", <<>>)) |->
           attribute_line(Get(element, "name", ""), element.attributes[k])]
    \o [k \in 1..Len(Get(element, "methods", <<>>)) |->
           method_line(Get(element, "name", ""), element.methods[k])]
    \o [k \in 1..Len(relationShips) |-> relation_line(relationShips[k])]

\* a variant that emits the relationships once, after the last element: C22 fails of it
DecodeClass_relationships_once(data) ==
    Code(Flatten([k \in 1..Len(Get(data, "declaringElements", <<>>)) |->
                     element_code(data.declaringElements[k], <<>>)])
         \o [k \in 1..Len(Get(data, "relationShips", <<>>)) |->
                relation_line(data.relationShips[k])])

\* DecodeClass(data).get_code()
DecodeClass(data) ==
    Code(Flatten([k \in 1..Len(Get(data, "declaringElements", <<>>)) |->
                     element_code(data.declaringElements[k], Get(data, "relationShips", <<>>))]))

\* f' <<{data["stereotype"]}>>' if "stereotype" in data else ""
stereotype_text(data) ==
    IF "stereotype" \in DOMAIN data THEN " <<" \o data.stereotype \o ">>" ELSE ""

\* "/" if data.get("business", False) else ""
business_text(data) == IF Get(data, "business", FALSE) THEN "/" ELSE ""

_decodeUseCaseActor(current_code, data) ==
    IF Get(data, "name", "") # ""
    THEN current_code
         \o << "actor" \o business_text(data) \o " \"" \o data.name \o "\""
               \o (IF Get(data, "alias", "") # "" THEN " as " \o data.alias ELSE "")
               \o stereotype_text(data) >>
    ELSE current_code

_decodeUseCase(current_code, data) ==
    IF Get(data, "name", "") # "" /\ Get(data, "alias", "") # ""
    THEN current_code
         \o << "usecase" \o business_text(data) \o " (\"" \o data.name \o "\") as "
               \o data.alias \o " " \o stereotype_text(data) >>
    ELSE current_code

RECURSIVE decode_each(_, _, _)
\* for item in items: plantuml_str = decode(plantuml_str, item)
decode_each(decode(_, _), current_code, items) ==
    IF items = <<>> THEN current_code
    ELSE decode_each(decode, decode(current_code, Head(items)), Tail(items))

RECURSIVE _decodeUseCasePackage(_, _)
RECURSIVE decode_packages(_, _)
\* a variant that closes the block of a package before it decodes its sub-packages: C24
\* fails of it
decode_packages_flat(current_code, packages) ==
    IF packages = <<>> THEN Code(current_code)
    ELSE IF "name" \notin DOMAIN Head(packages)
    THEN SysExit("Error inesperado al decodificar paquete: 'name'")
    ELSE IF "alias" \notin DOMAIN Head(packages)
    THEN SysExit("Error inesperado al decodificar paquete: 'alias'")
    ELSE LET package == Head(packages)
             opened == current_code
                       \o << "package \"" \o package.name \o "\" as " \o package.alias \o " {" >>
             with_use_cases == decode_each(_decodeUseCase, opened,
                                           Get(package, "useCases", <<>>))
             with_actors == decode_each(_decodeUseCaseActor, with_use_cases,
                                        Get(package, "actors", <<>>))
             nested == _decodeUseCasePackage(with_actors \o << "}" >>, package)
         IN  IF IsExit(nested) THEN nested
             ELSE decode_packages(nested.text, Tail(packages))

\* lines 297-308: the loop over packages; package["name"] or package["alias"] of a package
\* without that key raises KeyError, which the handler of line 311 turns into sys.exit(1)
decode_packages(current_code, packages) ==
    IF packages = <<>> THEN Code(current_code)
    ELSE IF "name" \notin DOMAIN Head(packages)
    THEN SysExit("Error inesperado al decodificar paquete: 'name'")
    ELSE IF "alias" \notin DOMAIN Head(packages)
    THEN SysExit("Error inesperado al decodificar paquete: 'alias'")
    ELSE LET package == Head(packages)
             opened == current_code
                       \o << "package \"" \o package.name \o "\" as " \o package.alias \o " {" >>
             with_use_cases == decode_each(_decodeUseCase, opened,
                                           Get(package, "useCases", <<>>))
             with_actors == decode_each(_decodeUseCaseActor, with_use_cases,
                                        Get(package, "actors", <<>>))
             nested == _decodeUseCasePackage(with_actors, package)
         IN  IF IsExit(nested) THEN nested
             ELSE decode_packages(nested.text \o << "}" >>, Tail(packages))

_decodeUseCasePackage(current_code, data) ==
    decode_packages(current_code, Get(data, "packages", <<>>))

\* f":\"{data.get('label', '')}\"" if data.get('label') else ""
label_text(data) ==
    IF Get(data, "label", "") # "" THEN ":\"" \o data.label \o "\"" ELSE ""

\* principal -direction-> secondary
arrow_text(data) ==
    Get(data, "principal", "") \o " -" \o Get(data, "direction", "") \o "-> "
    \o Get(data, "secondary", "")

_decodeRelationships(current_code, data) ==
    IF Get(data, "principal", "") = "" \/ Get(data, "secondary", "") = ""
    THEN current_code
    ELSE IF Get(data, "type", "") = "actor_actor"
    THEN current_code
         \o << (IF Get(data, "extend", "") = ">"
                THEN data.secondary \o " <|-- " \o data.principal
                ELSE IF Get(data, "extend", "") = "<"
                THEN data.principal \o " <|-- " \o data.secondary
                ELSE arrow_text(data))
               \o label_text(data) >>
    ELSE IF Get(data, "type", "") \in {"actor_usecase", "package_package"}
    THEN current_code \o << arrow_text(data) \o label_text(data) >>
    ELSE IF Get(data, "type", "") = "useCase_usecase"
            /\ Get(data, "stereotype", "") \in {"include", "extends"}
    THEN current_code
         \o << data.principal \o " .> " \o data.secondary \o ": " \o data.stereotype >>
    ELSE current_code

\* a variant that emits the relationships before the packages: C23 fails of it
DecodeUseCase_relationships_first(data) ==
    LET actors    == decode_each(_decodeUseCaseActor, <<>>, Get(data, "actors", <<>>))
        use_cases == decode_each(_decodeUseCase, actors, Get(data, "useCases", <<>>))
        relations == decode_each(_decodeRelationships, use_cases,
                                 Get(data, "relationships", <<>>))
        packages  == _decodeUseCasePackage(relations, data)
    IN  packages

\* DecodeUseCase(data).get_code(): actors, use cases, packages, relationships
DecodeUseCase(data) ==
    LET actors    == decode_each(_decodeUseCaseActor, <<>>, Get(data, "actors", <<>>))
        use_cases == decode_each(_decodeUseCase, actors, Get(data, "useCases", <<>>))
        packages  == _decodeUseCasePackage(use_cases, data)
    IN  IF IsExit(packages) THEN packages
        ELSE Code(decode_each(_decodeRelationships, packages.text,
                              Get(data, "relationships", <<>>)))

\* a variant that leaves the closing marker out of a diagram without content: C9 fails of it
json_to_plantuml_unterminated(data) ==
    IF "diagramType" \notin DOMAIN data
    THEN SysExit("Error, falta la clave 'diagramType' en los datos JSON")
    ELSE LET code == IF data.diagramType = "classDiagram" THEN DecodeClass(data)
                     ELSE IF data.diagramType = "useCaseDiagram" THEN DecodeUseCase(data)
                     ELSE Code(<<>>)
         IN  IF IsExit(code) THEN code
             ELSE IF code.text = <<>> THEN Code(<< "@startuml Diagram" >>)
             ELSE Code(<< "@startuml Diagram" >> \o code.text \o << "@enduml" >>)

\* JsonPuml._json_to_plantuml, on self._data = data
_json_to_plantuml(data) ==
    IF "diagramType" \notin DOMAIN data
    THEN SysExit("Error, falta la clave 'diagramType' en los datos JSON")
    ELSE LET code == IF data.diagramType = "classDiagram" THEN DecodeClass(data)
                     ELSE IF data.diagramType = "useCaseDiagram" THEN DecodeUseCase(data)
                     ELSE Code(<<>>)
         IN  IF IsExit(code) THEN code
             ELSE Code(<< "@startuml Diagram" >> \o code.text \o << "@enduml" >>)

(***************************************************************************)
(* The generator at work: a handler holds a diagram model, JsonPuml's      *)
(* constructor generates its text (regenerate_diagram_from_data), and      *)
(* _puml_from_data generates it again from the same model (the fallback of *)
(* create_class, update_class and delete_class).                           *)
(***************************************************************************)
\* the longest list of elements, relationships or actors in an input model
MaxItems == 2

\* the sequences over S of length at most n
SeqsUpTo(S, n) == UNION {[1..k -> S] : k \in 0..n}

\* no item, or one of S
AtMostOne(S) == {<<>>} \cup {<<x>> : x \in S}

ElementChoices ==
    { [ type |-> "class", name |-> "Usuario",
        attributes |-> << [name |-> "id", type |-> "int", visibility |-> "private"],
                          [name |-> "nombre", type |-> "String"] >>,
        methods |-> << [ name |-> "login", visibility |-> "public", returnType |-> "bool",
                         params |-> << [type |-> "String", name |-> "clave"],
                                       [type |-> "int", name |-> "pin"] >> ],
                       [name |-> "salir"] >> ],
      [ type |-> "interface", name |-> "Pagable" ],
      [ name |-> "Pedido",
        attributes |-> << [ name |-> "total", type |-> "float", visibility |-> "oculto",
                            isStatic |-> TRUE, isFinal |-> TRUE ] >>,
        methods |-> << [name |-> "calcular", isAbstract |-> TRUE, visibility |-> "protected"],
                       [name |-> "anular", visibility |-> "interno"] >> ] }

RelationChoices ==
    { [ type |-> "inheritance", source |-> "Usuario", target |-> "Pagable",
        multiplicity |-> [list |-> <<"1", "a", "b", "*">>] ],
      [ type |-> "uses", source |-> "Pedido", target |-> "Usuario",
        multiplicity |-> [list |-> <<"null", "x">>] ],
      [ type |-> "composition", source |-> "Pedido", target |-> "Usuario",
        multiplicity |-> [text |-> "1..*"] ],
      [ type |-> "association", source |-> "Usuario", target |-> "Pedido",
        multiplicity |-> [list |-> <<"1", "*">>] ],
      [ source |-> "Pedido", target |-> "Pagable" ] }

ClassModels ==
    { [diagramType |-> "classDiagram", declaringElements |-> elements, relationShips |-> relations] :
        elements \in SeqsUpTo(ElementChoices, MaxItems),
        relations \in SeqsUpTo(RelationChoices, MaxItems) }

ActorChoices ==
    { [name |-> "Cliente", alias |-> "cliente"],
      [name |-> "Admin", stereotype |-> "interno", business |-> TRUE],
      [alias |-> "anon"] }

UseCaseChoices ==
    { [name |-> "Realizar pedido", alias |-> "realizar_pedido"],
      [name |-> "Pagar"],
      [name |-> "Auditar", alias |-> "auditar", business |-> TRUE, stereotype |-> "interno"] }

PackageChoices ==
    { <<>>,
      << [ name |-> "Ventas", alias |-> "ventas",
           useCases |-> << [name |-> "Cobrar", alias |-> "cobrar"] >>,
           actors |-> << [name |-> "Cajero", alias |-> "cajero"] >>,
           packages |-> << [ name |-> "Cobros", alias |-> "cobros",
                             packages |-> << [ name |-> "Caja", alias |-> "caja",
                                               useCases |-> << [name |-> "Pagar"] >>,
                                               actors |-> << [alias |-> "anon"],
                                                             [name |-> "Auditor"] >> ] >> ],
                           [ name |-> "Devoluciones", alias |-> "devoluciones" ] >> ],
         [ name |-> "Soporte", alias |-> "soporte" ] >>,
      << [ alias |-> "sin_nombre" ] >>,
      << [ name |-> "Ventas", alias |-> "ventas", packages |-> << [name |-> "Roto"] >> ] >> }

RelationshipChoices ==
    { [ type |-> "actor_usecase", principal |-> "cliente", secondary |-> "realizar_pedido",
        direction |-> "r", label |-> "usa" ],
      [ type |-> "useCase_usecase", principal |-> "realizar_pedido", secondary |-> "auditar",
        stereotype |-> "include" ],
      [ type |-> "actor_actor", principal |-> "cliente", secondary |-> "cajero", extend |-> ">" ],
      [ type |-> "package_package", principal |-> "ventas", secondary |-> "soporte" ],
      [ type |-> "actor_usecase", principal |-> "cliente" ] }

UseCaseModels ==
    { [ diagramType |-> "useCaseDiagram", actors |-> actors, useCases |-> use_cases,
        packages |-> packages, relationships |-> relationships ] :
        actors \in SeqsUpTo(ActorChoices, MaxItems), use_cases \in AtMostOne(UseCaseChoices),
        packages \in PackageChoices, relationships \in AtMostOne(RelationshipChoices) }

\* models without the optional keys, of a diagramType the generator does not know, or without one
OtherModels ==
    { [diagramType |-> "classDiagram"],
      [diagramType |-> "useCaseDiagram"],
      [diagramType |-> "sequenceDiagram", declaringElements |-> << [type |-> "class", name |-> "Usuario"] >>],
      [diagramType |-> "classdiagram"],
      [declaringElements |-> << [type |-> "class", name |-> "Usuario"] >>],
      [actors |-> << [name |-> "Cliente", alias |-> "cliente"] >>] }

Models == ClassModels \cup UseCaseModels \cup OtherModels

\* a handler comes to hold a diagram model: the body of a request, or crud.diagram loaded
\* from its file
ReceiveDiagram(data) ==
    /\ process = "running"
    /\ diagram = NoDiagram
    /\ diagram' = data
    /\ _code' = NoCode
    /\ puml' = NoCode
    /\ UNCHANGED <<process, classifier_vars, pipeline_vars>>

\* a variant of the constructor whose generation uses the relationships up, removing them
\* from the model it was given: C8 fails of it
JsonPuml_consuming ==
    /\ process = "running"
    /\ diagram # NoDiagram
    /\ \E code \in {_json_to_plantuml(diagram)} :
          /\ _code' = IF IsExit(code) THEN _code ELSE code
          /\ process' = IF IsExit(code) THEN "exited" ELSE process
    /\ diagram' = [key \in DOMAIN diagram \ {"relationShips", "relationships"} |-> diagram[key]]
    /\ UNCHANGED <<puml, classifier_vars, pipeline_vars>>

\* JsonPuml(config) with config['data'] the diagram (decoder.py lines 47-55): self._code is
\* the generated text; sys.exit inside the generation ends the process
JsonPuml ==
    /\ process = "running"
    /\ diagram # NoDiagram
    /\ \E code \in {_json_to_plantuml(diagram)} :
          /\ _code' = IF IsExit(code) THEN _code ELSE code
          /\ process' = IF IsExit(code) THEN "exited" ELSE process
    /\ UNCHANGED <<diagram, puml, classifier_vars, pipeline_vars>>

\* _puml_from_data(diagram): a JsonPuml built without data, jp._data = diagram, and the text
\* jp._json_to_plantuml() returns; SystemExit is no Exception, so line 85 does not catch it
_puml_from_data ==
    /\ process = "running"
    /\ diagram # NoDiagram
    /\ \E code \in {_json_to_plantuml(diagram)} :
          /\ puml' = IF IsExit(code) THEN puml ELSE code
          /\ process' = IF IsExit(code) THEN "exited" ELSE process
    /\ UNCHANGED <<diagram, _code, classifier_vars, pipeline_vars>>

\* the handler returns its response: the model and the texts it held are dropped
Respond ==
    /\ process = "running"
    /\ diagram # NoDiagram
    /\ diagram' = NoDiagram
    /\ _code' = NoCode
    /\ puml' = NoCode
    /\ UNCHANGED <<process, classifier_vars, pipeline_vars>>

\* a request arrives at a handler that holds no model yet
ReceiveStep ==
    /\ diagram = NoDiagram
    /\ \E data \in Models : ReceiveDiagram(data)

NextGen ==
    \/ ReceiveStep
    \/ JsonPuml
    \/ _puml_from_data
    \/ Respond

SpecGen == Init /\ [][NextGen]_vars

(***************************************************************************)
(* build_json_for_decoder (main.py).  Its regular expressions are read on  *)
(* the tokens of a text: a word stands for a match of \w+, the characters  *)
(* between words stand for themselves, and no text of the vocabulary has   *)
(* two spaces in a row or a line break.  A text handed to the pipeline is  *)
(* one phrase, or empty.                                                   *)
(***************************************************************************)
\* the characters between words
Separators == {" ", ":", ";", ",", ".", "(", ")"}

IsWord(token) == token \notin Separators

\* the tokens of a text
text_tokens(text) == IF text = {} THEN <<>> ELSE Tokens[CHOOSE p \in text : TRUE]

\* Body(value), with the value computed once
Once(value, Body(_)) == CHOOSE result \in {Body(v) : v \in {value}} : TRUE

Take(s, n) == SubSeq(s, 1, n)

Drop(s, n) == SubSeq(s, n + 1, Len(s))

\* the least member of a set of positions, 0 if there is none
First(positions) ==
    IF positions = {} THEN 0 ELSE CHOOSE i \in positions : \A j \in positions : i <= j

\* the greatest member of a set of positions, 0 if there is none
Last(positions) ==
    IF positions = {} THEN 0 ELSE CHOOSE i \in positions : \A j \in positions : j <= i

RECURSIVE lstrip(_)
\* what is left of s after a match of \s* at its start
lstrip(s) == IF s # <<>> /\ Head(s) = " " THEN lstrip(Tail(s)) ELSE s

RECURSIVE rstrip(_)
rstrip(s) == IF s # <<>> /\ s[Len(s)] = " " THEN rstrip(Take(s, Len(s) - 1)) ELSE s

\* str.strip()
strip(s) == rstrip(lstrip(s))

\* the longest prefix of s made of tokens that satisfy the test: a greedy character class
Run(s, Allowed(_)) ==
    Take(s, Last({n \in 0..Len(s) : \A k \in 1..n : Allowed(s[k])}))

\* the words of the vocabulary that match [A-ZÁÉÍÓÚÑ]\w*
Capitalised == {"Actor", "Base", "Caso", "Cliente", "Pedido", "Usuario"}

\* the words of the vocabulary in which `atribut(?:o|os)` and `métod(?:o|os)` match, with what
\* of the word is left after the match: the alternation takes "o" first, so the "s" of a
\* plural is left over
after_keyword ==
    "atributo" :> ("atributos" :> "s") @@ "método" :> ("métodos" :> "s")

\* the words of the vocabulary that end, case ignored, in a match of each keyword pattern
ending_in ==
    "clase"        :> {"clase"} @@
    "clases?"      :> {"clase", "clases"} @@
    "atributo[s]?" :> {"atributos"} @@
    "método[s]?"   :> {"métodos"} @@
    "actor"        :> {"Actor"}

\* the words of the vocabulary in which a class name occurs, case ignored
occurs_in ==
    "Usuario" :> {"Usuario", "usuario"} @@
    "Pedido"  :> {"Pedido", "pedido"} @@
    "de"      :> {"de", "puede"}

\* lines 24-26: the first match of \b([A-ZÁÉÍÓÚÑ]\w*)\s*:\s*([^\n]+), the only one of a text
\* of one line: the class name and the rest of the line
block_match(tokens) ==
    Once(First({k \in 1..Len(tokens) :
                   /\ tokens[k] \in Capitalised
                   /\ Once(lstrip(Drop(tokens, k)), LAMBDA after :
                          after # <<>> /\ Head(after) = ":" /\ Tail(after) # <<>>)}),
         LAMBDA i :
            IF i = 0 THEN <<>>
            ELSE Once(lstrip(Tail(lstrip(Drop(tokens, i)))), LAMBDA rest :
                    << [cls |-> tokens[i], rest |-> IF rest = <<>> THEN << " " >> ELSE rest] >>))

\* lines 31 and 41: group 1 of keyword\s*[:\-]?\s*([^;]+) at its first match in rest, <<>> if
\* it has none
section(keyword, rest) ==
    Once(First({k \in 1..Len(rest) : rest[k] \in DOMAIN after_keyword[keyword]}), LAMBDA i :
        IF i = 0 THEN <<>>
        ELSE Once(after_keyword[keyword][rest[i]], LAMBDA residue :
             Once(lstrip(Drop(rest, i)), LAMBDA spaced :
             Once(IF residue # "" THEN << residue >> \o Drop(rest, i)
                  ELSE IF spaced # <<>> /\ Head(spaced) \in {":", "-"}
                  THEN lstrip(Tail(spaced)) ELSE spaced,
                  LAMBDA opened : Run(opened, LAMBDA token : token # ";")))))

\* a variant that keeps a list in one piece: C13 fails of it
unsplit(tokens) == << tokens >>

RECURSIVE split(_)
\* re.split(r',|\s+y\s+', ...): the pieces, in order
split(tokens) ==
    Once(First({k \in 1..Len(tokens) :
                   \/ tokens[k] = ","
                   \/ /\ k + 2 <= Len(tokens)
                      /\ tokens[k] = " " /\ tokens[k + 1] = "y" /\ tokens[k + 2] = " "}),
         LAMBDA i :
            IF i = 0 THEN << tokens >>
            ELSE << Take(tokens, i - 1) >>
                 \o split(Drop(tokens, IF tokens[i] = "," THEN i ELSE i + 2)))

\* re.sub(r'^[A-Za-zÀ-ÿ0-9_]+:\s*', '', ...)
without_prefix(n) ==
    IF Len(n) >= 2 /\ IsWord(n[1]) /\ n[2] = ":" THEN lstrip(Drop(n, 2)) ELSE n

\* re.sub(r'[^\wÀ-ÿ_].*$', '', ...)
without_tail(n) == Run(n, IsWord)

\* re.sub(r'\(.*\)', '', ...): from the first "(" to the last ")"
without_parentheses(tokens) ==
    Once(First({k \in 1..Len(tokens) : tokens[k] = "("}), LAMBDA i :
    Once(Last({k \in 1..Len(tokens) : tokens[k] = ")"}), LAMBDA j :
        IF i > 0 /\ j > i THEN Take(tokens, i - 1) \o Drop(tokens, j) ELSE tokens))

\* lines 33-39: the name one piece of the attribute section gives, <<>> if it gives none
block_attribute(piece) ==
    Once(strip(piece), LAMBDA n :
    Once(Drop(n, Len(Run(n, LAMBDA token : ~IsWord(token)))), LAMBDA unopened :
    Once(without_prefix(unopened), LAMBDA unprefixed : without_tail(unprefixed))))

\* lines 43-49: the name one piece of the method section gives
block_method(piece) ==
    Once(without_parentheses(piece), LAMBDA bare :
    Once(strip(bare), LAMBDA name :
    Once(without_prefix(name), LAMBDA unprefixed : without_tail(unprefixed))))

\* the pieces of a section that give a name, in order
names_of(section_text, Name(_)) ==
    IF section_text = <<>> THEN <<>>
    ELSE Once(split(section_text), LAMBDA pieces :
            SelectSeq([k \in 1..Len(pieces) |-> Name(pieces[k])], LAMBDA n : n # <<>>))

\* lines 23-50: pre_parsed, as the sequence of its (at most one) entries
pre_parsed(tokens) ==
    Once(block_match(tokens), LAMBDA found :
        IF found = <<>> THEN <<>>
        ELSE Once(section("atributo", found[1].rest), LAMBDA m_attrs :
             Once(section("método", found[1].rest), LAMBDA m_methods :
             Once(names_of(m_attrs, block_attribute), LAMBDA attrs :
             Once(names_of(m_methods, block_method), LAMBDA methods_list :
                IF attrs = <<>> /\ methods_list = <<>> THEN <<>>
                ELSE << [cls |-> found[1].cls, attributes |-> attrs,
                         methods |-> methods_list] >>)))))

RECURSIVE findall_word(_, _)
\* re.findall(keyword\s+(\w+), ..., re.IGNORECASE) for a keyword pattern of ending_in
findall_word(keyword, tokens) ==
    Once(First({k \in 1..(Len(tokens) - 2) :
                   /\ tokens[k] \in ending_in[keyword]
                   /\ tokens[k + 1] = " " /\ IsWord(tokens[k + 2])}),
         LAMBDA i :
            IF i = 0 THEN <<>>
            ELSE << tokens[i + 2] >> \o findall_word(keyword, Drop(tokens, i + 2)))

RECURSIVE name_list(_)
\* line 57: the names of [A-Z]\w*(?:\s*,\s*[A-Z]\w*|\s+y\s+[A-Z]\w*)* at the start of tokens
name_list(tokens) ==
    IF tokens = <<>> THEN <<>>
    ELSE Once(lstrip(Tail(tokens)), LAMBDA spaced :
         Once(IF spaced = <<>> THEN <<>> ELSE lstrip(Tail(spaced)), LAMBDA next :
            IF /\ next # <<>> /\ Head(next) \in Capitalised
               /\ \/ Head(spaced) = ","
                  \/ /\ Head(spaced) = "y" /\ spaced # Tail(tokens) /\ next # Tail(spaced)
            THEN << Head(tokens) >> \o name_list(next)
            ELSE << Head(tokens) >>))

\* lines 56-60: the names of the first "clase(s) A, B y C", matched with case
listed_classes(tokens) ==
    Once(First({k \in 1..(Len(tokens) - 2) :
                   /\ tokens[k] \in ending_in["clases?"]
                   /\ tokens[k + 1] = " " /\ tokens[k + 2] \in Capitalised}),
         LAMBDA i : IF i = 0 THEN <<>> ELSE name_list(Drop(tokens, i + 1)))

RECURSIVE distinct(_)
\* list(dict.fromkeys(...)): first occurrences, in order
distinct(s) ==
    IF s = <<>> THEN <<>>
    ELSE Once(distinct(Take(s, Len(s) - 1)), LAMBDA front :
            IF \E k \in 1..Len(front) : front[k] = s[Len(s)] THEN front
            ELSE Append(front, s[Len(s)]))

RECURSIVE mentioned_in(_, _)
\* lines 63-65 and 188-190: what the messages of the context add, message by message
mentioned_in(keyword, messages) ==
    IF messages = <<>> THEN <<>>
    ELSE Once(text_tokens(Head(messages)), LAMBDA tokens : findall_word(keyword, tokens))
         \o mentioned_in(keyword, Tail(messages))

\* lines 55-74: class_names, given pre_parsed
class_names_of(tokens, context, parsed) ==
    Once(findall_word("clase", tokens), LAMBDA explicit :
    Once(IF explicit # <<>> THEN explicit ELSE listed_classes(tokens), LAMBDA in_text :
    Once(in_text \o mentioned_in("clase", Get(context, "messages", <<>>))
                 \o [k \in 1..Len(parsed) |-> parsed[k].cls],
         LAMBDA class_names : distinct(class_names))))

\* lines 94 and 133: group 1 of {class_name}[^\.\,\n]*keyword\s+([...]+), <<>> if the pattern
\* is not found: the leftmost occurrence of the name, then the last keyword it can reach
class_section(class_name, keyword, Allowed(_), tokens) ==
    Once([i \in 1..Len(tokens) |->
             {j \in (i + 1)..(Len(tokens) - 2) :
                 /\ tokens[j] \in ending_in[keyword]
                 /\ \A k \in (i + 1)..(j - 1) : tokens[k] \notin {".", ","}
                 /\ tokens[j + 1] = " " /\ Allowed(tokens[j + 2])}],
         LAMBDA reach :
            Once(First({k \in 1..Len(tokens) :
                           tokens[k] \in occurs_in[class_name] /\ reach[k] # {}}),
                 LAMBDA i : IF i = 0 THEN <<>>
                            ELSE Run(Drop(tokens, Last(reach[i]) + 1), Allowed)))

RECURSIVE add_new(_, _)
\* lines 96-109 and 135-147: the pieces that are not empty, less those already listed
add_new(listed, pieces) ==
    IF pieces = <<>> THEN listed
    ELSE add_new(IF Head(pieces) = <<>> \/ \E k \in 1..Len(listed) : listed[k] = Head(pieces)
                 THEN listed ELSE Append(listed, Head(pieces)),
                 Tail(pieces))

\* pre_parsed[class_name].get(key, []) if the class has an entry, [] if it has none
parsed_for(class_name, parsed, key) ==
    IF \E k \in 1..Len(parsed) : parsed[k].cls = class_name
    THEN parsed[CHOOSE k \in 1..Len(parsed) : parsed[k].cls = class_name][key]
    ELSE <<>>

\* [\w\s,]
InAttributeList(token) == IsWord(token) \/ token \in {" ", ","}

\* [\w\s,()]
InMethodList(token) == IsWord(token) \/ token \in {" ", ",", "(", ")"}

\* the words found by the pattern of lines 113 and 151, each a name
fallback_names(keyword, tokens) ==
    Once(findall_word(keyword, tokens), LAMBDA words :
        [k \in 1..Len(words) |-> << words[k] >>])

\* lines 79-120 and 175-176: the names of the attributes of one class
attributes_of(class_name, class_names, tokens, parsed) ==
    Once(parsed_for(class_name, parsed, "attributes"), LAMBDA listed :
    Once(class_section(class_name, "atributo[s]?", InAttributeList, tokens), LAMBDA m_attr :
    Once(split(m_attr), LAMBDA attr_list :
    Once(IF m_attr # <<>>
         THEN add_new(listed, [k \in 1..Len(attr_list) |-> strip(attr_list[k])])
         ELSE IF Len(class_names) <= 1
         THEN listed \o fallback_names("atributo[s]?", tokens)
         ELSE listed,
         LAMBDA attributes :
            SelectSeq(attributes, LAMBDA n : \A k \in 1..Len(n) : n[k] # " ")))))

\* lines 122-158: the names of the methods of one class
methods_of(class_name, class_names, tokens, parsed) ==
    Once(parsed_for(class_name, parsed, "methods"), LAMBDA listed :
    Once(class_section(class_name, "método[s]?", InMethodList, tokens), LAMBDA m_methods :
    Once(split(m_methods), LAMBDA method_list :
        IF m_methods # <<>>
        THEN add_new(listed, [k \in 1..Len(method_list) |->
                                 strip(without_parentheses(method_list[k]))])
        ELSE IF Len(class_names) <= 1
        THEN listed \o fallback_names("método[s]?", tokens)
        ELSE listed)))

\* lines 83-89, 103-109 and 114-120
new_attribute(name) ==
    [name |-> name, type |-> "String", visibility |-> "public",
     isStatic |-> FALSE, isFinal |-> FALSE]

\* lines 126-132, 141-147 and 152-158
new_method(name) ==
    [name |-> name, returnType |-> "void", visibility |-> "public",
     isAbstract |-> FALSE, params |-> <<>>]

\* lines 160-165
declaring_element(class_name, class_names, tokens, parsed) ==
    Once(attributes_of(class_name, class_names, tokens, parsed), LAMBDA attributes :
    Once(methods_of(class_name, class_names, tokens, parsed), LAMBDA methods :
        [type |-> "class", name |-> class_name,
         attributes |-> [k \in 1..Len(attributes) |-> new_attribute(Join(attributes[k]))],
         methods |-> [k \in 1..Len(methods) |-> new_method(Join(methods[k]))]]))

RECURSIVE inheritances(_)
\* lines 166-173: re.findall(r'(\w+)\s+hereda\s+de\s+(\w+)', text, re.IGNORECASE)
inheritances(tokens) ==
    Once(First({k \in 1..(Len(tokens) - 6) :
                   /\ IsWord(tokens[k]) /\ tokens[k + 1] = " "
                   /\ lower(tokens[k + 2]) = "hereda" /\ tokens[k + 3] = " "
                   /\ lower(tokens[k + 4]) = "de" /\ tokens[k + 5] = " "
                   /\ IsWord(tokens[k + 6])}),
         LAMBDA i :
            IF i = 0 THEN <<>>
            ELSE << [type |-> "inheritance", source |-> tokens[i], target |-> tokens[i + 6],
                     multiplicity |-> [list |-> << "", "", "", "" >>]] >>
                 \o inheritances(Drop(tokens, i + 6)))

\* lines 21-182: the class-diagram model
class_model(tokens, context) ==
    Once(pre_parsed(tokens), LAMBDA parsed :
    Once(class_names_of(tokens, context, parsed), LAMBDA class_names :
        [diagramType |-> "classDiagram",
         declaringElements |->
            [k \in 1..Len(class_names) |->
                declaring_element(class_names[k], class_names, tokens, parsed)],
         relationShips |-> inheritances(tokens)]))

\* the sequences that list every member of a finite set once
Orderings(S) ==
    {order \in [1..Cardinality(S) -> S] :
        \A i, j \in 1..Cardinality(S) : order[i] = order[j] => i = j}

Range(s) == {s[k] : k \in 1..Len(s)}

\* str.replace(" ", "_").lower()
alias_of(tokens) == Join([k \in 1..Len(tokens) |->
                            IF tokens[k] = " " THEN "_" ELSE lower(tokens[k])])

\* lines 187 and 191
new_actor(actor) == [name |-> actor, alias |-> lower(actor), stereotype |-> "", business |-> FALSE]

\* lines 195 and 199
new_usecase(usecase) ==
    Once(strip(usecase), LAMBDA name :
        [name |-> Join(name), alias |-> alias_of(name), stereotype |-> "", business |-> FALSE])

InPhrase(token) == IsWord(token) \/ token = " "

RECURSIVE findall_usecases(_)
\* re.findall(r'caso de uso\s+([\w\s]+)', ..., re.IGNORECASE)
findall_usecases(tokens) ==
    Once(First({k \in 1..(Len(tokens) - 6) :
                   /\ lower(tokens[k]) = "caso" /\ tokens[k + 1] = " "
                   /\ lower(tokens[k + 2]) = "de" /\ tokens[k + 3] = " "
                   /\ lower(tokens[k + 4]) = "uso" /\ tokens[k + 5] = " "
                   /\ IsWord(tokens[k + 6])}),
         LAMBDA i :
            IF i = 0 THEN <<>>
            ELSE Once(Run(Drop(tokens, i + 5), InPhrase), LAMBDA usecase :
                    << usecase >> \o findall_usecases(Drop(tokens, i + 5 + Len(usecase)))))

RECURSIVE usecases_in(_)
\* lines 196-199: the use cases the messages of the context add
usecases_in(messages) ==
    IF messages = <<>> THEN <<>>
    ELSE Once(text_tokens(Head(messages)), LAMBDA tokens : findall_usecases(tokens))
         \o usecases_in(Tail(messages))

RECURSIVE actor_usecases(_)
\* lines 201-209: re.findall(r'(\w+)\s+puede\s+([\w\s]+)', text, re.IGNORECASE)
actor_usecases(tokens) ==
    Once(First({k \in 1..(Len(tokens) - 4) :
                   /\ IsWord(tokens[k]) /\ tokens[k + 1] = " "
                   /\ lower(tokens[k + 2]) = "puede" /\ tokens[k + 3] = " "
                   /\ IsWord(tokens[k + 4])}),
         LAMBDA i :
            IF i = 0 THEN <<>>
            ELSE Once(Run(Drop(tokens, i + 3), InPhrase), LAMBDA secondary :
                    << [type |-> "actor_usecase", principal |-> tokens[i],
                        secondary |-> alias_of(strip(secondary)), direction |-> "right",
                        label |-> ""] >>
                    \o actor_usecases(Drop(tokens, i + 3 + Len(secondary)))))

\* lines 184-215: the use-case models the call can return.  Lines 192 and 200 remove the
\* duplicates by way of a set of tuples, whose iteration order is not fixed, so the actors
\* and the use cases come in any order
usecase_models(tokens, context) ==
    UNION { { [diagramType |-> "useCaseDiagram", actors |-> actor_order,
               useCases |-> usecase_order, relationships |-> relationships] :
                actor_order \in Orderings({new_actor(a) : a \in Range(actors)}),
                usecase_order \in Orderings({new_usecase(u) : u \in Range(useCases)}) } :
            actors \in {findall_word("actor", tokens)
                        \o mentioned_in("actor", Get(context, "messages", <<>>))},
            useCases \in {findall_usecases(tokens)
                          \o usecases_in(Get(context, "messages", <<>>))},
            relationships \in {actor_usecases(tokens)} }

\* the context of a call made without a classifier: {}
NoContext == <<>>

\* build_json_for_decoder(text, diagram_type, classifier, user_id) with context what
\* classifier.get_user_context(user_id) returns: the values the call can return, NoDiagram
\* standing for None
build_json_for_decoder(text, diagram_type, context) ==
    UNION { IF diagram_type = "diagrama_clases" THEN {class_model(tokens, context)}
            ELSE IF diagram_type = "diagrama_casos_uso" THEN usecase_models(tokens, context)
            ELSE {NoDiagram} :
            tokens \in {text_tokens(text)} }

(***************************************************************************)
(* classify_and_generate_diagram (main.py lines 219-306), run from entry   *)
(* to return.  What the language model answers, whether the schema file    *)
(* can be read and accepts the model, and what PlantUML does are the       *)
(* environment's choice.                                                   *)
(***************************************************************************)
LLM_FALLBACK_CONFIDENCE == Dec(65)

\* what ask_llm_for_diagram_type can return: a JSON answer of the language model, normalised
\* (line 61 of llm_client.py), or the fallback of lines 59 and 63; "None" stands for None
LLMDecisions ==
    { [resolved |-> TRUE, diagram_type |-> "diagrama_clases", question |-> "None", raw |-> "json"],
      [resolved |-> TRUE, diagram_type |-> "diagrama_casos_uso", question |-> "None", raw |-> "json"],
      [resolved |-> TRUE, diagram_type |-> "diagrama_secuencia", question |-> "None", raw |-> "json"],
      [resolved |-> TRUE, diagram_type |-> "None", question |-> "None", raw |-> "json"],
      [resolved |-> FALSE, diagram_type |-> "diagrama_clases", question |-> "None", raw |-> "json"],
      [resolved |-> FALSE, diagram_type |-> "None", question |-> "¿Clases o casos de uso?",
       raw |-> "json"],
      [resolved |-> FALSE, diagram_type |-> "None",
       question |-> "¿Puedes especificar si quieres un diagrama de clases o de casos de uso?",
       error |-> "RuntimeError"] }

\* the language model is not asked
NoDecision == [none |-> TRUE]

\* one call made by the pipeline, with what it was given or gave
Called(name) == [call |-> name]

\* the dict the pipeline returns: text, analysis and one more key
Reply(text, analysis, key, value) == [text |-> text, analysis |-> analysis] @@ (key :> value)

\* line 229
needs_clarification(intent_result) ==
    \/ intent_result.intent \in {"unknown", "ambiguous", "None"}
    \/ RLess(intent_result.confidence, LLM_FALLBACK_CONFIDENCE)

\* a variant that asks for the classes only: C11 fails of it
empty_model_question_classes_only(diagram_type, data) ==
    IF diagram_type = "diagrama_clases" /\ Get(data, "declaringElements", <<>>) = <<>>
    THEN "No se detectaron clases ni detalles (atributos/métodos). ¿Puedes nombrar al menos una clase y, si es posible, sus atributos o métodos?"
    ELSE "None"

\* lines 256-267: the question asked about a model without content, "None" if it has content
empty_model_question(diagram_type, data) ==
    IF diagram_type = "diagrama_clases" /\ Get(data, "declaringElements", <<>>) = <<>>
    THEN "No se detectaron clases ni detalles (atributos/métodos). ¿Puedes nombrar al menos una clase y, si es posible, sus atributos o métodos?"
    ELSE IF /\ diagram_type = "diagrama_casos_uso"
            /\ Get(data, "actors", <<>>) = <<>> /\ Get(data, "useCases", <<>>) = <<>>
    THEN "No se detectaron actores ni casos de uso. ¿Puedes indicar los actores y/o los casos de uso que quieres modelar?"
    ELSE "None"

\* lines 268-306: validation, generation of the text and rendering; sys.exit inside JsonPuml
\* leaves the call without a reply
generation(text, analysis, data, done) ==
    { [reply |-> Reply(text, analysis, "error", "Error al generar el diagrama"),
       steps |-> done \o << Called("get_schema") >>],
      [reply |-> Reply(text, analysis, "error", "JSON inválido"),
       steps |-> done \o << Called("get_schema"), Called("jsonschema.validate") >>] }
    \cup UNION {
        UNION { IF IsExit(code) THEN {[reply |-> code, steps |-> built]}
                ELSE { [reply |-> Reply(text, analysis, "error",
                                        "Error al generar el diagrama"),
                        steps |-> Append(built, Called("generate_diagram"))],
                       [reply |-> Reply(text, analysis, "error",
                                        "No se pudo generar el archivo SVG."),
                        steps |-> Append(built, Called("generate_diagram"))],
                       [reply |-> Reply(text, analysis, "svg", [rendering_of |-> code.text]),
                        steps |-> Append(built, Called("generate_diagram"))] } :
                built \in {done \o << Called("get_schema"), Called("jsonschema.validate"),
                                      [call |-> "JsonPuml", _code |-> code] >>} } :
        code \in {_json_to_plantuml(data)} }

\* lines 248-267, for one model build_json_for_decoder returned
after_extraction(text, analysis, diagram_type, data, done) ==
    UNION { IF data = NoDiagram \/ diagram_type = "unknown"
            THEN {[reply |-> Reply(text, analysis, "error",
                                   "No se pudo construir el JSON para el diagrama."),
                   steps |-> built]}
            ELSE IF question # "None"
            THEN {[reply |-> Reply(text, analysis, "clarify", question), steps |-> built]}
            ELSE generation(text, analysis, data, built) :
            built \in {Append(done, [call |-> "build_json_for_decoder",
                                     diagram_type |-> diagram_type, data |-> data])},
            question \in {empty_model_question(diagram_type, data)} }

\* lines 247-306
extraction(text, analysis, diagram_type, context, done) ==
    UNION {after_extraction(text, analysis, diagram_type, data, done) :
              data \in build_json_for_decoder(text, diagram_type, context)}

\* lines 231-245, for one answer of the language model
after_llm(text, intent_result, llm_decision, context, done) ==
    IF llm_decision.resolved /\ llm_decision.diagram_type # "None"
    THEN UNION { extraction(text, analysis, llm_decision.diagram_type, context, done) :
                 analysis \in {[intent_result EXCEPT
                                   !.method = "llm_resolved (" \o intent_result.method \o ")",
                                   !.confidence = RMax(intent_result.confidence, Dec(80))]} }
    ELSE {[reply |-> Reply(text, intent_result, "clarify",
                           IF llm_decision.question # "None" THEN llm_decision.question
                           ELSE "¿Puedes especificar si quieres un diagrama de clases o un diagrama de casos de uso?")
                     @@ ("llm_raw" :> Get(llm_decision, "raw", "None")),
           steps |-> done]}

\* lines 223-306 after analyze_conversation has returned intent_result and left context
\* behind: the replies the call can give, each with the calls it made.  asyncio.run, line 231,
\* raises RuntimeError in a thread whose event loop is running, before the coroutine starts
replies(text, intent_result, context, running_loop) ==
    IF IsRaised(intent_result)
    THEN {[reply |-> intent_result, steps |-> << Called("analyze_conversation") >>]}
    ELSE IF needs_clarification(intent_result) /\ running_loop
    THEN {[reply |-> Raised("RuntimeError"),
           steps |-> << Called("analyze_conversation"), Called("asyncio.run") >>]}
    ELSE UNION { IF llm_decision = NoDecision
                 THEN extraction(text, intent_result, intent_result.intent, context,
                                 << Called("analyze_conversation") >>)
                 ELSE after_llm(text, intent_result, llm_decision, context,
                                << Called("analyze_conversation"),
                                   Called("ask_llm_for_diagram_type")
                                       @@ ("returned" :> llm_decision) >>) :
                 llm_decision \in IF needs_clarification(intent_result)
                                  THEN LLMDecisions ELSE {NoDecision} }

RECURSIVE comma_list(_)
\* ", ".join(items)
comma_list(items) ==
    IF items = <<>> THEN ""
    ELSE Head(items) \o (IF Tail(items) = <<>> THEN "" ELSE ", " \o comma_list(Tail(items)))

\* a text of one block: "Name: atributos: a1, ..., ak; métodos: m1(), ..., mj()"
Block(name, attributes, methods) ==
    name \o ": atributos: " \o comma_list(attributes) \o "; métodos: "
    \o comma_list([k \in 1..Len(methods) |-> methods[k] \o "()"])

\* the attributes and the methods of Scenario A
ScenarioAAttributes == << "id", "nombre" >>

ScenarioAMethods == << "crear", "eliminar" >>

\* the lists of the blocks: the prefixes of those of Scenario A
BlockAttributes ==
    {SubSeq(ScenarioAAttributes, 1, k) : k \in 0..Len(ScenarioAAttributes)}

BlockMethods == {SubSeq(ScenarioAMethods, 1, j) : j \in 0..Len(ScenarioAMethods)}

ScenarioB == "Actor Cliente interactúa con el sistema. Caso de uso: realizar pedido"

ScenarioC == "clase de yoga los martes"

\* the texts given to the pipeline
PipelineTexts ==
    { {} }
    \cup { {Block("Usuario", attributes, methods)} :
              attributes \in BlockAttributes, methods \in BlockMethods }
    \cup { {ScenarioB}, {ScenarioC},
           {"Actor Cliente. caso de uso realizar pedido"},
           {"clase Pedido"},
           {"clase Pedido tiene atributos total y métodos pagar"},
           {"clases Usuario y Pedido"},
           {"Pedido hereda de Base"},
           {"herencia"}, {"Actor Cliente"}, {"el usuario puede pagar"} }

\* the number of calls of SpecPipeline
MaxPipelineCalls == 2

\* decoder.py lines 84-85 and 89-92, main.py lines 271-276: a call that is alone and returns
\* an svg has written its text to output/output.puml and had PlantUML write output/output.svg
left_on_disk(outcome) ==
    IF "svg" \in DOMAIN outcome.reply
    THEN [puml |-> outcome.reply.svg.rendering_of, svg |-> outcome.reply.svg]
    ELSE files

\* classify_and_generate_diagram(text, None, user_id), in a thread whose event loop is
\* running or not
classify_and_generate(text, user_id, running_loop) ==
    /\ analyze_conversation(user_id, text, FALSE)
    /\ \E outcome \in replies(text, ret', heap'[conversation_context'[user_id]],
                              running_loop) :
          /\ reply' = outcome.reply
          /\ steps' = outcome.steps
          /\ files' = left_on_disk(outcome)

\* get_ai_response (ai_client.py line 14) runs the pipeline in a worker thread
CallFromWorkerThread ==
    /\ calls < MaxPipelineCalls
    /\ \E text \in PipelineTexts : classify_and_generate(text, Caller, FALSE)

\* chat_text and ws_chat (API_SERVICE.py lines 313, 326, 386 and 400) are coroutines and
\* call the pipeline in the thread of the event loop that runs them
CallFromEventLoop ==
    /\ calls < MaxPipelineCalls
    /\ \E text \in PipelineTexts : classify_and_generate(text, Caller, TRUE)

NextPipeline == CallFromWorkerThread \/ CallFromEventLoop

SpecPipeline == Init /\ [][NextPipeline]_vars

(***************************************************************************)
(* chat_text (POST /chat) and ws_chat (API_SERVICE.py), one request run    *)
(* from its classification to its response.  Both are coroutines: the      *)
(* pipeline they call runs in the thread of the running event loop.        *)
(***************************************************************************)
\* the number of analyze_conversation calls after which no request is started in SpecChat
MaxChatCalls == 3

\* the texts of the requests
ChatTexts ==
    { {"herencia"}, {"Actor Cliente"}, {"el usuario puede pagar"}, {"clase Pedido"},
      {"objeto enum constructor usuario proceso"},
      {Block("Usuario", ScenarioAAttributes, ScenarioAMethods)} }

\* analyze_conversation(user_id, text, is_follow_up) on the user's dict `entry`: what it
\* returns and the dict it leaves (Clasificador_diagrama.py lines 95-113)
classified(entry, text, is_follow_up) ==
    Once(record_message(entry, text), LAMBDA context :
        Once(final_result(context, text, is_follow_up), LAMBDA result :
            [ result |-> result,
              context |-> IF IsRaised(result) THEN context
                          ELSE _update_conversation_context(context, result,
                                                            _industry_analysis(text)) ]))

\* what the handler sends for what classify_and_generate_diagram gave: chat_text lets an
\* exception through (lines 386 and 400 are outside its try blocks), ws_chat sends it as an
\* error (lines 331-332); SystemExit passes both; line 387 and line 314 add the handler's
\* llm_decision to the analysis of the result
response(endpoint, outcome, llm_decision) ==
    IF IsExit(outcome) THEN outcome
    ELSE IF IsRaised(outcome)
    THEN IF endpoint = "ws_chat" THEN [error |-> outcome.raised] ELSE outcome
    ELSE IF llm_decision = NoDecision THEN outcome
    ELSE [outcome EXCEPT !.analysis = @ @@ [llm_decision |-> llm_decision]]

\* API_SERVICE.py lines 367-401 (chat_text) and 298-327 (ws_chat) for a request with a text
chat_request(endpoint, user_id, text, is_follow_up) ==
    \E id \in {IF conversation_context[user_id] = 0
               THEN FreshId ELSE conversation_context[user_id]} :
    \E first \in {classified(IF conversation_context[user_id] = 0 THEN NewContext ELSE heap[id],
                             text, is_follow_up)} :
    \E llm_decision \in IF needs_clarification(first.result) THEN LLMDecisions
                        ELSE {NoDecision} :
        /\ \A w \in Threads : th[w].pc = "idle"
        /\ conversation_context' = [conversation_context EXCEPT ![user_id] = id]
        /\ call' = [user_id |-> user_id, text |-> text, is_follow_up |-> is_follow_up,
                    endpoint |-> endpoint, intent_result |-> first.result]
        /\ IF llm_decision # NoDecision
              /\ ~(llm_decision.resolved /\ llm_decision.diagram_type # "None")
           THEN /\ heap' = [heap EXCEPT ![id] = first.context]
                /\ ret' = first.result
                /\ calls' = calls + 1
                /\ returned' = [returned EXCEPT ![user_id] = Append(@, first.result.confidence)]
                /\ reply' = [ text |-> text, analysis |-> first.result,
                              clarify |-> IF llm_decision.question # "None"
                                          THEN llm_decision.question
                                          ELSE "¿Quieres un diagrama de clases o un diagrama de casos de uso?",
                              llm_raw |-> Get(llm_decision, "raw", "None") ]
                /\ steps' = << Called("analyze_conversation"),
                               Called("ask_llm_for_diagram_type")
                                   @@ ("returned" :> llm_decision) >>
                /\ files' = files
           ELSE \E second \in {classified(first.context, text, FALSE)} :
                \E outcome \in replies(text, second.result, second.context, TRUE) :
                   /\ heap' = [heap EXCEPT ![id] = second.context]
                   /\ ret' = second.result
                   /\ calls' = calls + 2
                   /\ returned' = [returned EXCEPT ![user_id] =
                                      @ \o << first.result.confidence,
                                              second.result.confidence >>]
                   /\ reply' = response(endpoint, outcome.reply, llm_decision)
                   /\ files' = left_on_disk(outcome)
                   /\ steps' = (IF llm_decision = NoDecision
                                THEN << Called("analyze_conversation") >>
                                ELSE << Called("analyze_conversation"),
                                        Called("ask_llm_for_diagram_type")
                                            @@ ("returned" :> llm_decision) >>)
                               \o outcome.steps
        /\ UNCHANGED <<th, generator_vars>>

\* POST /chat: the flag is the request's follow_up or clarify_answer (lines 357-361)
chat_text ==
    /\ calls < MaxChatCalls
    /\ \E user_id \in Users, text \in ChatTexts, is_follow_up \in BOOLEAN :
          chat_request("chat_text", user_id, text, is_follow_up)

\* one message of a /ws/chat/{user_id} connection: the flag is the payload's follow_up
ws_chat ==
    /\ calls < MaxChatCalls
    /\ \E user_id \in Users, text \in ChatTexts, follow_up \in BOOLEAN :
          chat_request("ws_chat", user_id, text, follow_up)

NextChat == chat_text \/ ws_chat

SpecChat == Init /\ [][NextChat]_vars

(***************************************************************************)
(* classify_and_generate_diagram in two worker threads, one user each      *)
(* (get_ai_response, ai_client.py line 14).  The classification and the    *)
(* extraction of a call are one step here; from JsonPuml.generate_diagram  *)
(* on, every access to output/output.puml and output/output.svg is a step *)
(* of its own: every call uses the same two paths (main.py lines 275-276)  *)
(* and nothing takes a lock.                                               *)
(***************************************************************************)
\* total number of calls the threads make in a run of SpecRender
MaxRenderCalls == 3

\* the messages of the two users
RenderTexts ==
    { {Block("Usuario", ScenarioAAttributes, ScenarioAMethods)},
      {"clase Pedido tiene atributos total y métodos pagar"},
      {"Actor Cliente. caso de uso realizar pedido"} }

\* main.py lines 223-279: classification, extraction, validation and JsonPuml(config); a call
\* that does not get as far as generate_diagram, or whose PlantUML fails, returns at once
StartCall(w, user_id, text) ==
    \E id \in {IF conversation_context[user_id] = 0
               THEN FreshId ELSE conversation_context[user_id]} :
    \E first \in {classified(IF conversation_context[user_id] = 0 THEN NewContext ELSE heap[id],
                             text, FALSE)} :
    \E outcome \in replies(text, first.result, first.context, FALSE) :
        /\ th[w].pc = "idle"
        /\ conversation_context' = [conversation_context EXCEPT ![user_id] = id]
        /\ heap' = [heap EXCEPT ![id] = first.context]
        /\ ret' = first.result
        /\ call' = [user_id |-> user_id, text |-> text, is_follow_up |-> FALSE]
        /\ calls' = calls + 1
        /\ returned' = [returned EXCEPT ![user_id] = Append(@, first.result.confidence)]
        /\ IF "svg" \in DOMAIN outcome.reply
           THEN /\ th' = [th EXCEPT ![w] = [ pc |-> "write", context |-> 0, outcome |-> outcome,
                                             _code |-> outcome.reply.svg.rendering_of,
                                             source |-> "None" ]]
                /\ UNCHANGED <<reply, steps>>
           ELSE /\ reply' = outcome.reply
                /\ steps' = outcome.steps
                /\ th' = th
        /\ UNCHANGED <<files, generator_vars>>

\* decoder.py lines 84-85: open(out, "w") and write(self._code)
WritePuml(w) ==
    /\ th[w].pc = "write"
    /\ files' = [files EXCEPT !.puml = th[w]._code]
    /\ th' = [th EXCEPT ![w].pc = "plantuml"]
    /\ UNCHANGED <<conversation_context, heap, ret, call, calls, returned, reply, steps,
                   generator_vars>>

\* decoder.py lines 89-92: the java process reads output/output.puml
PlantUMLRead(w) ==
    /\ th[w].pc = "plantuml"
    /\ th' = [th EXCEPT ![w].pc = "svg", ![w].source = files.puml]
    /\ UNCHANGED <<conversation_context, heap, ret, call, calls, returned, generator_vars,
                   pipeline_vars>>

\* decoder.py lines 89-92: the java process writes output/output.svg and ends
PlantUMLWrite(w) ==
    /\ th[w].pc = "svg"
    /\ files' = [files EXCEPT !.svg = [rendering_of |-> th[w].source]]
    /\ th' = [th EXCEPT ![w].pc = "read"]
    /\ UNCHANGED <<conversation_context, heap, ret, call, calls, returned, reply, steps,
                   generator_vars>>

\* main.py lines 281-294: the file exists, is read, and its content returned as 'svg'
ReadBack(w) ==
    /\ th[w].pc = "read"
    /\ reply' = [th[w].outcome.reply EXCEPT !.svg = files.svg]
    /\ steps' = th[w].outcome.steps
    /\ th' = [th EXCEPT ![w] = Idle]
    /\ UNCHANGED <<conversation_context, heap, ret, call, calls, returned, files,
                   generator_vars>>

\* get_ai_response(user_message, user_id) starts a worker thread for the thread's user
get_ai_response_render(w) ==
    /\ calls < MaxRenderCalls
    /\ \E user_message \in RenderTexts : StartCall(w, UserOf[w], user_message)

NextRender ==
    \E w \in Threads :
        \/ get_ai_response_render(w)
        \/ WritePuml(w)
        \/ PlantUMLRead(w)
        \/ PlantUMLWrite(w)
        \/ ReadBack(w)

SpecRender == Init /\ [][NextRender]_vars

(***************************************************************************)
(* Properties of the classifier: what a returned result is read against.   *)
(***************************************************************************)
\* a call has returned a result
CallReturned == call.user_id # "none" /\ ~IsRaised(ret)

\* the four signals reported in a result's analysis_breakdown
SignalsOf(result) ==
    << result.analysis_breakdown.basic, result.analysis_breakdown.contextual,
       result.analysis_breakdown.industry, result.analysis_breakdown.semantic >>

\* the signals that pass the > 0.3 filter
Survivors(result) ==
    {a \in {SignalsOf(result)[k] : k \in 1..4} : RLess(Dec(30), a.confidence)}

\* the fused score of an intent some survivor voted for: the mean of its votes, plus 0.15 on a
\* follow-up that continues the last intent, plus 0.10 for two votes or 0.15 for three or more
FusedScore(signals, intent, last_intent, is_follow_up) ==
    LET votes == SelectSeq(signals, LAMBDA a : RLess(Dec(30), a.confidence) /\ a.intent = intent)
        mean  == RDivInt(RSum([k \in DOMAIN votes |-> votes[k].confidence]), Len(votes))
    IN  RAdd(mean,
             RAdd(IF is_follow_up /\ last_intent = intent THEN Dec(15) ELSE Dec(0),
                  IF Len(votes) >= 3 THEN Dec(15)
                  ELSE IF Len(votes) >= 2 THEN Dec(10) ELSE Dec(0)))

FusedScores(result, last_intent, is_follow_up) ==
    [intent \in {a.intent : a \in Survivors(result)} |->
        FusedScore(SignalsOf(result), intent, last_intent, is_follow_up)]

HighestScore(fused) ==
    CHOOSE x \in {fused[i] : i \in DOMAIN fused} : \A i \in DOMAIN fused : RLeq(fused[i], x)

\* the second entry of the scores in descending order, 0 when there is only one
SecondScore(fused) ==
    LET top  == CHOOSE i \in DOMAIN fused : fused[i] = HighestScore(fused)
        rest == DOMAIN fused \ {top}
    IN  IF rest = {} THEN Dec(0) ELSE HighestScore([i \in rest |-> fused[i]])

\* c is x rounded to 2 decimals: a whole number of hundredths within 0.005 of x
IsRoundingOf(c, x) ==
    /\ 100 % c[2] = 0
    /\ RLeq(RSub(c, x), Rat(5, 1000))
    /\ RLeq(RSub(x, c), Rat(5, 1000))

InUnitInterval(x) == RLeq(Dec(0), x) /\ RLeq(x, Dec(100))

\* C1: after every call in which a signal survives the > 0.3 filter, if the two highest fused
\* scores differ by less than 0.08 (the second being 0 when there is one group) or the highest
\* is below 0.55, the result is 'ambiguous', its confidence is the highest score rounded to 2
\* decimals, and its ambiguity_reason names exactly the conditions that triggered.
C1_AmbiguityRule ==
    (CallReturned /\ "analysis_breakdown" \in DOMAIN ret)
        => LET fused == FusedScores(ret, call.last_intent, call.is_follow_up)
               best  == HighestScore(fused)
               diff  == RSub(best, SecondScore(fused))
               triggered ==
                   (IF RLess(diff, Dec(8)) THEN {"small_score_diff"} ELSE {})
                   \cup (IF RLess(best, Dec(55)) THEN {"low_best_score"} ELSE {})
           IN  triggered # {}
               => /\ ret.intent = "ambiguous"
                  /\ IsRoundingOf(ret.confidence, best)
                  /\ "ambiguity_reason" \in DOMAIN ret
                  /\ {ret.ambiguity_reason[k][1] : k \in DOMAIN ret.ambiguity_reason}
                        = triggered

\* a call returned 'ambiguous' with both conditions named
C1_BothConditionsNamed ==
    /\ CallReturned
    /\ ret.intent = "ambiguous"
    /\ "ambiguity_reason" \in DOMAIN ret
    /\ Len(ret.ambiguity_reason) = 2

\* the last call's text holds a decisive class term and no decisive use-case term
DecisiveClassCall ==
    CallReturned /\ decisive_class(call.text) /\ ~decisive_usecase(call.text)

\* C2, as stated: every text with a decisive class term and no decisive use-case term is
\* classified 'diagrama_clases' with confidence >= 0.9, whatever the context and the flag.
C2_DecisiveClassAlwaysWins ==
    DecisiveClassCall
        => ret.intent = "diagrama_clases" /\ RLeq(Dec(90), ret.confidence)

\* C2, amended: for such a text the basic signal votes 'diagrama_clases' at 0.92; the result is
\* 'diagrama_clases' whenever every surviving signal votes 'diagrama_clases', and its confidence
\* is >= 0.9 whenever the basic signal is the only survivor.
C2_DecisiveClassWinsUnopposed ==
    DecisiveClassCall
        => /\ ret.analysis_breakdown.basic.intent = "diagrama_clases"
           /\ ret.analysis_breakdown.basic.confidence = Dec(92)
           /\ (\A a \in Survivors(ret) : a.intent = "diagrama_clases")
                 => ret.intent = "diagrama_clases"
           /\ Survivors(ret) = {ret.analysis_breakdown.basic}
                 => RLeq(Dec(90), ret.confidence)

\* a decisive class text, no other signal surviving, classified 'diagrama_clases'
C2_UnopposedDecisiveClass ==
    /\ DecisiveClassCall
    /\ Survivors(ret) = {ret.analysis_breakdown.basic}
    /\ ret.intent = "diagrama_clases"

\* C3: every user's confidence_history has at most 10 entries, the most recent confidences
\* returned for that user in call order; after 15 calls it has exactly 10, the 5 oldest gone.
C3_HistoryKeepsLastTen ==
    \A u \in Users :
        conversation_context[u] # 0
        => LET history == heap[conversation_context[u]].confidence_history
               kept    == IF Len(returned[u]) < 10 THEN Len(returned[u]) ELSE 10
           IN  /\ Len(history) <= 10
               /\ history = [k \in 1..kept |-> returned[u][Len(returned[u]) - kept + k]]
               /\ Len(returned[u]) = 15
                     => /\ Len(history) = 10
                        /\ \A k \in 1..10 : history[k] = returned[u][5 + k]

\* 15 calls made, 10 confidences kept, and the first confidence dropped differs from the first kept
C3_FifteenCallsMade ==
    /\ Len(returned[Caller]) = 15
    /\ Len(heap[conversation_context[Caller]].confidence_history) = 10
    /\ returned[Caller][1] # returned[Caller][6]

\* C4: every returned confidence, and every confidence stored in a confidence_history, is
\* within [0, 1].
C4_ConfidenceInUnitInterval ==
    /\ CallReturned => InUnitInterval(ret.confidence)
    /\ \A u \in Users :
          conversation_context[u] # 0
          => \A k \in DOMAIN heap[conversation_context[u]].confidence_history :
                InUnitInterval(heap[conversation_context[u]].confidence_history[k])

\* C5: every call returns a structured result, raising nothing, whose intent is one of
\* diagrama_clases, diagrama_casos_uso, ambiguous, unknown, other; when no signal names an
\* intent the result is 'unknown' or 'ambiguous'.
C5_ClassificationNeverFails ==
    call.user_id # "none"
        => /\ ~IsRaised(ret)
           /\ {"intent", "confidence", "method", "supporting_analyses"} \subseteq DOMAIN ret
           /\ ret.intent \in {"diagrama_clases", "diagrama_casos_uso", "ambiguous",
                              "unknown", "other"}
           /\ ("analysis_breakdown" \notin DOMAIN ret
               \/ \A k \in 1..4 : SignalsOf(ret)[k].intent = "unknown")
                 => ret.intent \in {"unknown", "ambiguous"}

\* the empty text, on which no signal names an intent, was classified
C5_EmptyTextClassified ==
    /\ CallReturned
    /\ call.text = {}
    /\ \A k \in 1..4 : SignalsOf(ret)[k].intent = "unknown"
    /\ ret.intent \in {"unknown", "ambiguous"}

\* every thread is outside analyze_conversation
Quiescent == \A w \in Threads : th[w].pc = "idle"

\* C6: when calls for the same user interleave, no update is lost: once the calls have
\* completed, interaction_count and len(messages) count every completed call, and
\* confidence_history holds the confidence of each (a replaced context would lose them).
C6_NoLostUpdate ==
    Quiescent
        => \A u \in Users :
              Len(returned[u]) > 0
              => /\ conversation_context[u] # 0
                 /\ heap[conversation_context[u]].interaction_count = Len(returned[u])
                 /\ Len(heap[conversation_context[u]].messages) = Len(returned[u])
                 /\ Len(heap[conversation_context[u]].confidence_history) = Len(returned[u])
                 /\ \A k \in DOMAIN returned[u] :
                       \E j \in DOMAIN heap[conversation_context[u]].confidence_history :
                          heap[conversation_context[u]].confidence_history[j] = returned[u][k]

\* the user a step of thread w works for
ActingUser(w) == IF th[w].pc = "idle" THEN th'[w].user_id ELSE th[w].user_id

\* the context a call's analyses run on, given the user's entry as the call found it
ContextOnEntry(w) ==
    record_message(IF th[w].entry = NoDict THEN NewContext ELSE th[w].entry, th[w].text)

\* C7: a step of a call for user u leaves the entry and the context of every other user
\* unchanged, and under any interleaving with calls for other users the call returns, and
\* leaves in u's context, what u's context on entry, the text and the flag alone determine.
C7_UsersAreIndependent ==
    [][ \A w \in Threads :
          th'[w] # th[w]
          => /\ \A v \in Users \ {ActingUser(w)} :
                   /\ conversation_context'[v] = conversation_context[v]
                   /\ conversation_context[v] # 0
                         => heap'[conversation_context[v]] = heap[conversation_context[v]]
             /\ (th[w].pc = "update")
                   => /\ ret' = final_result(ContextOnEntry(w), th[w].text, th[w].is_follow_up)
                      /\ heap'[conversation_context'[th[w].user_id]]
                            = _update_conversation_context(ContextOnEntry(w), ret',
                                                           _industry_analysis(th[w].text)) ]_vars

\* a call for one user has returned while a call for another user, whose context exists,
\* is under way
C7_ReturnedDuringOtherUsersCall ==
    /\ CallReturned
    /\ \E w \in Threads :
          /\ th[w].pc \in {"append", "load", "store", "analyse", "update"}
          /\ th[w].user_id # call.user_id
          /\ conversation_context[call.user_id] # 0
          /\ Len(heap[conversation_context[call.user_id]].messages) > 0

(***************************************************************************)
(* Properties of the generator.                                            *)
(***************************************************************************)
\* the texts generated so far from the diagram held
GeneratedTexts == {value \in {_code, puml} : IsCode(value)}

C9_TextDelimited ==
    \A value \in GeneratedTexts :
        /\ Len(value.text) >= 2
        /\ value.text[1] = "@startuml Diagram"
        /\ value.text[Len(value.text)] = "@enduml"
        /\ \A k \in 2..(Len(value.text) - 1) :
              value.text[k] \notin {"@startuml Diagram", "@startuml", "@enduml"}

\* a class diagram and a use-case diagram of empty collections both yield the two markers
C9_EmptyDiagramGenerated ==
    /\ IsCode(puml)
    /\ "diagramType" \in DOMAIN diagram
    /\ diagram.diagramType \in {"classDiagram", "useCaseDiagram"}
    /\ \A key \in DOMAIN diagram \ {"diagramType"} : diagram[key] = <<>>
    /\ DOMAIN diagram # {"diagramType"}
    /\ puml.text = << "@startuml Diagram", "@enduml" >>

\* C10: a model whose diagramType is neither 'classDiagram' nor 'useCaseDiagram', or is
\* absent, never ends the process and never yields a text as if generation had succeeded.
C10_UnknownTypeReported ==
    (diagram # NoDiagram
     /\ Get(diagram, "diagramType", "absent") \notin {"classDiagram", "useCaseDiagram"})
        => /\ process = "running"
           /\ ~IsCode(puml)
           /\ ~IsCode(_code)

(***************************************************************************)
(* Properties of the conversation context.                                 *)
(***************************************************************************)
\* the last call was a follow-up made after a call that returned 'ambiguous', and its text
\* reuses the vocabulary the contextual signal looks up for the stored last_intent
FollowUpAfterAmbiguous ==
    /\ CallReturned
    /\ "context" \in DOMAIN call
    /\ call.is_follow_up
    /\ call.context.last_intent = "ambiguous"
    /\ "analysis_breakdown" \in DOMAIN ret
    /\ ret.analysis_breakdown.contextual.method = "context_reinforcement"

ContextBefore ==
    IF conversation_context[Caller] = 0 THEN NewContext ELSE heap[conversation_context[Caller]]

\* C17: every call leaves last_intent equal to the intent it returned, whatever the
\* confidence; it overwrites detected_domain with that intent only when the confidence is
\* strictly above 0.75 and leaves it unchanged otherwise; and its contextual signal and its
\* verdict are those computed from last_intent, detected_domain and confidence_history as the
\* previous call left them.
C17_UpdateFollowsVerdict ==
    [][ (calls' = calls + 1 /\ ~IsRaised(ret'))
        => LET before == ContextBefore
               after  == heap'[conversation_context'[Caller]]
               read   == [before EXCEPT !.messages = Append(@, call'.text),
                                        !.interaction_count = @ + 1]
           IN  /\ after.last_intent = ret'.intent
               /\ after.detected_domain = IF RLess(Dec(75), ret'.confidence)
                                          THEN ret'.intent ELSE before.detected_domain
               /\ "analysis_breakdown" \in DOMAIN ret'
                     => /\ ret'.analysis_breakdown.contextual
                              = _contextual_analysis(call'.text, read)
                        /\ ret' = _combine_analyses(ret'.analysis_breakdown.basic,
                                                    ret'.analysis_breakdown.contextual,
                                                    ret'.analysis_breakdown.industry,
                                                    ret'.analysis_breakdown.semantic,
                                                    read, call'.is_follow_up) ]_vars

\* with a detected_domain on record, a call returned another intent than the stored
\* last_intent with confidence at most 0.75: last_intent changed, detected_domain did not
C17_LowConfidenceChangeOfIntent ==
    /\ CallReturned
    /\ "context" \in DOMAIN call
    /\ "analysis_breakdown" \in DOMAIN ret
    /\ ret.intent # call.context.last_intent
    /\ RLeq(ret.confidence, Dec(75))
    /\ call.context.detected_domain \notin {"None", ret.intent}
    /\ heap[conversation_context[Caller]].detected_domain = call.context.detected_domain
    /\ heap[conversation_context[Caller]].last_intent = ret.intent

\* C18: in every state industry_hints holds only tags among software, business, education
\* and database; a call whose industry signal has confidence 0 leaves industry_hints as it
\* was, and a call whose industry signal has a non-zero confidence adds the winning industry.
C18_IndustryHints ==
    (CallReturned /\ "context" \in DOMAIN call /\ "analysis_breakdown" \in DOMAIN ret)
        => LET hints    == heap[conversation_context[call.user_id]].industry_hints
               industry == ret.analysis_breakdown.industry
           IN  /\ hints \subseteq {Industries[k] : k \in 1..Len(Industries)}
               /\ hints = IF industry.confidence = Dec(0)
                          THEN call.context.industry_hints
                          ELSE call.context.industry_hints \cup {primary_industry(call.text)}

\* the number of surviving signals of a result that voted for an intent
Supporters(result, intent) ==
    Cardinality({k \in 1..4 : /\ RLess(Dec(30), SignalsOf(result)[k].confidence)
                              /\ SignalsOf(result)[k].intent = intent})

\* the last call returned with surviving signals and the ambiguity rule did not fire
ClearVerdict ==
    /\ CallReturned
    /\ "analysis_breakdown" \in DOMAIN ret
    /\ LET fused == FusedScores(ret, call.last_intent, call.is_follow_up)
           best  == HighestScore(fused)
       IN  ~RLess(RSub(best, SecondScore(fused)), Dec(8)) /\ ~RLess(best, Dec(55))

\* C19: when the ambiguity rule does not fire, the intent returned is the one with the
\* highest adjusted score, the confidence is min(best, 0.95) plus 0.05 for two or more and
\* 0.03 more for three or more supporting signals, capped at 1.0, and supporting_analyses is
\* the number of surviving signals that voted for the winning intent.
C19_ClearVerdict ==
    ClearVerdict
        => LET fused == FusedScores(ret, call.last_intent, call.is_follow_up)
               best  == HighestScore(fused)
               n     == Supporters(ret, ret.intent)
               expected ==
                   RMin(Dec(100),
                        RAdd(RMin(best, Dec(95)),
                             RAdd(IF n >= 2 THEN Dec(5) ELSE Dec(0),
                                  IF n >= 3 THEN Dec(3) ELSE Dec(0))))
           IN  /\ ret.intent \in DOMAIN fused
               /\ fused[ret.intent] = best
               /\ RLeq(ret.confidence, expected) /\ RLeq(expected, ret.confidence)
               /\ ret.supporting_analyses = n

\* a clear verdict whose best score is above the 0.95 cap, with three supporting signals
C19_CappedVerdictOfThree ==
    /\ ClearVerdict
    /\ Supporters(ret, ret.intent) >= 3
    /\ RLess(Dec(95), HighestScore(FusedScores(ret, call.last_intent, call.is_follow_up)))

(***************************************************************************)
(* Properties of the class-diagram generator.                              *)
(***************************************************************************)
\* the lines of the text _puml_from_data returned
LinesOf(code) == {code.text[k] : k \in 1..Len(code.text)}

\* a class diagram is held and its text has been returned
ClassDiagramGenerated ==
    /\ IsCode(puml)
    /\ diagram # NoDiagram
    /\ Get(diagram, "diagramType", "") = "classDiagram"

\* an attribute or a method, its visibility replaced by 'public' when missing or unmapped
WithDefaultVisibility(member) ==
    IF Get(member, "visibility", "") \in DOMAIN _visibilities THEN member
    ELSE [key \in DOMAIN member \cup {"visibility"} |->
             IF key = "visibility" THEN "public" ELSE member[key]]

\* a relationship, its multiplicity dropped when it is a list shorter than 4
WithoutShortMultiplicity(relation) ==
    IF /\ "multiplicity" \in DOMAIN relation
       /\ "list" \in DOMAIN relation.multiplicity
       /\ Len(relation.multiplicity.list) < 4
    THEN [key \in DOMAIN relation \ {"multiplicity"} |-> relation[key]]
    ELSE relation

\* C20: in the text of a class diagram an attribute or a method whose visibility is missing
\* or unmapped has the line of a public one ('+'), a relationship of an unmapped kind has
\* the line of an association ('--'), and a relationship whose multiplicity is missing, not a
\* list or shorter than 4 has the line of one without endpoint labels.
C20_DefaultsForAnomalies ==
    ClassDiagramGenerated
        => \A k \in 1..Len(Get(diagram, "declaringElements", <<>>)) :
              LET element == diagram.declaringElements[k]
                  attributes == Get(element, "attributes", <<>>)
                  methods == Get(element, "methods", <<>>)
                  relations == Get(diagram, "relationShips", <<>>)
              IN  /\ \A j \in 1..Len(attributes) :
                        attribute_line(element.name, WithDefaultVisibility(attributes[j]))
                           \in LinesOf(puml)
                  /\ \A j \in 1..Len(methods) :
                        method_line(element.name, WithDefaultVisibility(methods[j]))
                           \in LinesOf(puml)
                  /\ \A j \in 1..Len(relations) :
                        /\ relation_line(WithoutShortMultiplicity(relations[j])) \in LinesOf(puml)
                        /\ Get(relations[j], "type", "") \notin DOMAIN _relations_type
                              => relation_line([key \in DOMAIN relations[j] \cup {"type"} |->
                                                   IF key = "type" THEN "association"
                                                   ELSE relations[j][key]])
                                    \in LinesOf(puml)

\* ---------------------------------------------------------------------------
\* Properties of the pipeline (classify_and_generate_diagram)
\* ---------------------------------------------------------------------------

\* the call invoked the collaborator of this name
Invoked(name) == \E k \in DOMAIN steps : steps[k].call = name

\* the positions of the steps that extracted a model
Extractions == {k \in DOMAIN steps : steps[k].call = "build_json_for_decoder"}

\* the extracted model has no content for its diagram type
IsEmptyModel(diagram_type, data) ==
    \/ /\ diagram_type = "diagrama_clases"
       /\ Get(data, "declaringElements", <<>>) = <<>>
    \/ /\ diagram_type = "diagrama_casos_uso"
       /\ Get(data, "actors", <<>>) = <<>>
       /\ Get(data, "useCases", <<>>) = <<>>

\* the call returned a dict with this key
Returned(key) == ~IsRaised(reply) /\ reply # NoReply /\ key \in DOMAIN reply

\* C11: when the model extracted by classify_and_generate_diagram is empty (a
\* class diagram without declaring elements, a use case diagram without actors
\* and without use cases) the call returns a 'clarify' request, does not invoke
\* JsonPuml.generate_diagram and its result carries no 'svg'.
C11_EmptyModelNeverRendered ==
    \A k \in Extractions :
        IsEmptyModel(steps[k].diagram_type, steps[k].data)
            => /\ Returned("clarify")
               /\ ~Invoked("generate_diagram")
               /\ ~Returned("svg")

\* C11 witness: a use case diagram was chosen, the extraction found neither an
\* actor nor a use case, and the call asked the user instead of rendering
C11_EmptyUseCaseModelClarified ==
    /\ \E k \in Extractions :
          /\ steps[k].diagram_type = "diagrama_casos_uso"
          /\ IsEmptyModel(steps[k].diagram_type, steps[k].data)
    /\ Returned("clarify")
    /\ ~Invoked("JsonPuml")

\* the positions of the steps that consulted the clarification service
Consultations == {k \in DOMAIN steps : steps[k].call = "ask_llm_for_diagram_type"}

\* the answer of the clarification service names a diagram type
IsResolved(llm_decision) == llm_decision.resolved /\ llm_decision.diagram_type # "None"

\* C12: whenever the classifier's intent is 'unknown' or 'ambiguous' or its
\* confidence is below 0.65, classify_and_generate_diagram consults the
\* clarification service before it builds any model; an answer that is not
\* resolved, or resolved without a diagram type, ends the call with a 'clarify'
\* question, without extraction and without rendering; a resolved answer makes
\* its diagram type the one used for extraction and the reported confidence is
\* at least 0.8.
C12_ClarificationServiceConsulted ==
    (reply # NoReply /\ ~IsRaised(ret) /\ needs_clarification(ret))
        => /\ Consultations # {}
           /\ \A k \in Consultations :
                 /\ \A e \in Extractions : k < e
                 /\ IF IsResolved(steps[k].returned)
                    THEN /\ Extractions # {}
                         /\ \A e \in Extractions :
                               steps[e].diagram_type = steps[k].returned.diagram_type
                         /\ ~IsRaised(reply)
                         /\ RLeq(Dec(80), reply.analysis.confidence)
                    ELSE /\ Returned("clarify")
                         /\ Extractions = {}
                         /\ ~Invoked("generate_diagram")

\* the messages of the caller's conversation, the text of the call being the last
Messages == heap[conversation_context[Caller]].messages

CurrentText == Messages[Len(Messages)]

EarlierMessages == SubSeq(Messages, 1, Len(Messages) - 1)

\* the positions of the steps that extracted a class model
ClassExtractions == {k \in Extractions : steps[k].diagram_type = "diagrama_clases"}

\* the positions of the steps that generated the text of a diagram
Generations == {k \in DOMAIN steps : steps[k].call = "JsonPuml" /\ IsCode(steps[k]._code)}

NamesOf(members) == [k \in 1..Len(members) |-> members[k].name]

\* the element is the class of this name with these attributes and methods, in order
IsClassOf(element, name, attributes, methods) ==
    /\ element.type = "class"
    /\ element.name = name
    /\ NamesOf(element.attributes) = attributes
    /\ NamesOf(element.methods) = methods

\* the text declares the class and has, for each method, a line ending in 'm()'
DeclaresWithMethods(code, name, methods) ==
    /\ ("class " \o name) \in LinesOf(code)
    /\ \A k \in 1..Len(methods) :
          (name \o " : +  void " \o methods[k] \o "()") \in LinesOf(code)

\* C13 as stated: for a text of one block 'Name: atributos: a1, ..., ak;
\* métodos: m1(), ..., mj()' the class model build_json_for_decoder returns has
\* exactly one class, named Name, with attributes [a1..ak] and methods [m1..mj]
\* in that order, and the generated text has the line 'class Name' and one
\* line per method ending in 'mi()'.
C13_BlockYieldsExactlyOneClass ==
    \A attributes \in BlockAttributes \ {<<>>}, methods \in BlockMethods \ {<<>>} :
        \A k \in ClassExtractions :
            CurrentText = {Block("Usuario", attributes, methods)}
                => /\ Len(steps[k].data.declaringElements) = 1
                   /\ IsClassOf(steps[k].data.declaringElements[1],
                                "Usuario", attributes, methods)
                   /\ \A g \in Generations :
                         DeclaresWithMethods(steps[g]._code, "Usuario", methods)

\* C13 amended: for a text of one block with at least one attribute or method
\* the class model has exactly one element named Name, the class with
\* attributes [a1..ak] and methods [m1..mj] in that order; every other element
\* is a class without attributes and methods whose name follows 'clase' in an
\* earlier message of the conversation; the generated text has the line
\* 'class Name' and one line per method ending in 'mi()'.  A block without
\* attributes and methods gives no element of its own.
C13_BlockYieldsItsClass ==
    \A attributes \in BlockAttributes, methods \in BlockMethods :
        \A k \in ClassExtractions :
            CurrentText = {Block("Usuario", attributes, methods)}
                => \E elements \in {steps[k].data.declaringElements} :
                   \E own \in {{i \in DOMAIN elements : elements[i].name = "Usuario"}} :
                      /\ IF attributes = <<>> /\ methods = <<>> THEN own = {}
                         ELSE /\ Cardinality(own) = 1
                              /\ \A i \in own : IsClassOf(elements[i], "Usuario",
                                                          attributes, methods)
                              /\ \A g \in Generations :
                                    DeclaresWithMethods(steps[g]._code, "Usuario", methods)
                      /\ \A i \in DOMAIN elements \ own :
                            /\ IsClassOf(elements[i], elements[i].name, <<>>, <<>>)
                            /\ elements[i].name
                                  \in Range(mentioned_in("clase", EarlierMessages))

\* C13 witness: Scenario A arrives after the message 'clase Pedido'; the model
\* has the classes Pedido and Usuario and its text was generated
C13_ScenarioAAfterAnotherClass ==
    /\ reply # NoReply
    /\ CurrentText = {Block("Usuario", ScenarioAAttributes, ScenarioAMethods)}
    /\ EarlierMessages = << {"clase Pedido"} >>
    /\ \E k \in ClassExtractions : Len(steps[k].data.declaringElements) = 2
    /\ Generations # {}

\* the positions of the steps that extracted a use case model
UseCaseExtractions == {k \in Extractions : steps[k].diagram_type = "diagrama_casos_uso"}

\* C14: for the text 'Actor Cliente interactúa con el sistema. Caso de uso:
\* realizar pedido' and the intent diagrama_casos_uso the model returned by
\* build_json_for_decoder is a useCaseDiagram, has an actor named 'Cliente'
\* and has a use case whose name or alias derives from 'realizar pedido'.
C14_ScenarioBActorAndUseCase ==
    \A k \in UseCaseExtractions :
        CurrentText = {ScenarioB}
            => /\ steps[k].data.diagramType = "useCaseDiagram"
               /\ \E i \in DOMAIN steps[k].data.actors :
                     steps[k].data.actors[i].name = "Cliente"
               /\ \E i \in DOMAIN steps[k].data.useCases :
                     \/ steps[k].data.useCases[i].name = "realizar pedido"
                     \/ steps[k].data.useCases[i].alias = "realizar_pedido"

\* C15: for the text 'clase de yoga los martes' the classifier of the
\* pipeline returns the intent 'other' with confidence 0.95 by way of the
\* false-positive filter, whatever the domain terms score, and
\* classify_and_generate_diagram extracts no model for that text.
C15_ScenarioCFilteredOut ==
    (reply # NoReply /\ CurrentText = {ScenarioC})
        => /\ ret.intent = "other"
           /\ ret.confidence = Dec(95)
           /\ ret.method = "false_positive_filter"
           /\ Extractions = {}

(***************************************************************************)
(* Properties of the generators' layout.                                   *)
(***************************************************************************)
\* values put in the middle positions of a multiplicity array; "null" stands for None
MiddleValues == {"n", "null"}

\* the relationship with positions 1 and 2 (counted from 0) of its multiplicity array
\* replaced, where the array has them
WithMiddle(relation, second, third) ==
    IF "multiplicity" \in DOMAIN relation /\ "list" \in DOMAIN relation.multiplicity
    THEN [relation EXCEPT !.multiplicity.list =
             [i \in 1..Len(@) |-> IF i = 2 THEN second ELSE IF i = 3 THEN third ELSE @[i]]]
    ELSE relation

\* the class model with the middle positions of its j-th relationship replaced by pick[j]
WithMiddles(data, pick) ==
    [data EXCEPT !.relationShips =
        [j \in 1..Len(@) |-> WithMiddle(@[j], pick[j][1], pick[j][2])]]

\* the relationships of the diagram held whose multiplicity is an array with positions 0
\* and 3, neither of them null
FullyLabelled ==
    {j \in 1..Len(Get(diagram, "relationShips", <<>>)) :
        /\ "multiplicity" \in DOMAIN diagram.relationShips[j]
        /\ "list" \in DOMAIN diagram.relationShips[j].multiplicity
        /\ Len(diagram.relationShips[j].multiplicity.list) >= 4
        /\ diagram.relationShips[j].multiplicity.list[1] # "null"
        /\ diagram.relationShips[j].multiplicity.list[4] # "null"}

\* C21: the text of a class diagram does not depend on positions 1 and 2 of the
\* multiplicity arrays: every model that differs from the one held only in those positions
\* generates the same text; and the line of a relationship whose array has positions 0 and 3
\* is 'source "m[0]" arrow "m[3]" target'.
C21_OnlyPositions0And3 ==
    (ClassDiagramGenerated /\ "relationShips" \in DOMAIN diagram)
        => /\ \A pick \in [1..Len(diagram.relationShips) -> MiddleValues \X MiddleValues] :
                 _json_to_plantuml(WithMiddles(diagram, pick)) = puml
           /\ Get(diagram, "declaringElements", <<>>) # <<>>
                 => \A j \in FullyLabelled :
                       \E relation \in {diagram.relationShips[j]} :
                          (relation.source \o " \"" \o relation.multiplicity.list[1] \o "\" "
                           \o Get(_relations_type, Get(relation, "type", ""), "--")
                           \o " \"" \o relation.multiplicity.list[4] \o "\" "
                           \o relation.target) \in LinesOf(puml)

\* C21 witness: a class with two relationships, one of them with a 4-element array, has been
\* generated
C21_FourElementArrayGenerated ==
    /\ ClassDiagramGenerated
    /\ Get(diagram, "declaringElements", <<>>) # <<>>
    /\ Len(Get(diagram, "relationShips", <<>>)) = 2
    /\ FullyLabelled # {}

\* the number of lines one declared element takes when the diagram has m relationships
BlockSize(element, m) ==
    1 + Len(Get(element, "attributes", <<>>)) + Len(Get(element, "methods", <<>>)) + m

RECURSIVE LinesBefore(_, _, _)
\* the number of lines of the text before the declaration line of the k-th element
LinesBefore(elements, k, m) ==
    IF k = 1 THEN 1 ELSE LinesBefore(elements, k - 1, m) + BlockSize(elements[k - 1], m)

\* C22: the text of a class diagram is, between its two markers, one block per declared
\* element in model order, and each block is the element's declaration line, its attribute
\* lines, its method lines and then the lines of all the relationships of the diagram; so n
\* elements and m relationships give n*m relationship lines, and no element gives none.
C22_RelationshipsPerElement ==
    ClassDiagramGenerated
        => \E elements \in {Get(diagram, "declaringElements", <<>>)} :
           \E relations \in {Get(diagram, "relationShips", <<>>)} :
              /\ Len(puml.text)
                    = LinesBefore(elements, Len(elements) + 1, Len(relations)) + 1
              /\ \A k \in 1..Len(elements) :
                    \E at \in {LinesBefore(elements, k, Len(relations))} :
                    \E attributes \in {Get(elements[k], "attributes", <<>>)} :
                    \E methods \in {Get(elements[k], "methods", <<>>)} :
                       /\ puml.text[at + 1]
                             = Get(elements[k], "type", "") \o " " \o elements[k].name
                       /\ \A j \in 1..Len(attributes) :
                             puml.text[at + 1 + j]
                                = attribute_line(elements[k].name, attributes[j])
                       /\ \A j \in 1..Len(methods) :
                             puml.text[at + 1 + Len(attributes) + j]
                                = method_line(elements[k].name, methods[j])
                       /\ \A j \in 1..Len(relations) :
                             puml.text[at + 1 + Len(attributes) + Len(methods) + j]
                                = relation_line(relations[j])

\* C22 witness: two elements and two relationships have given a text with four relationship
\* lines
C22_TwoByTwoGenerated ==
    /\ ClassDiagramGenerated
    /\ Len(Get(diagram, "declaringElements", <<>>)) = 2
    /\ Len(Get(diagram, "relationShips", <<>>)) = 2
    /\ Len(puml.text) = 2 + BlockSize(diagram.declaringElements[1], 2)
                          + BlockSize(diagram.declaringElements[2], 2)

\* a use case diagram is held and its text has been returned
UseCaseDiagramGenerated ==
    /\ IsCode(puml)
    /\ diagram # NoDiagram
    /\ Get(diagram, "diagramType", "") = "useCaseDiagram"

\* the lines of the actors, the use cases or the relationships listed under a key
MemberLines(data, key) ==
    IF key = "actors" THEN decode_each(_decodeUseCaseActor, <<>>, Get(data, key, <<>>))
    ELSE IF key = "useCases" THEN decode_each(_decodeUseCase, <<>>, Get(data, key, <<>>))
    ELSE decode_each(_decodeRelationships, <<>>, Get(data, key, <<>>))

RECURSIVE PackageBlocks(_, _)
\* the blocks of a list of packages, one after the other: the opening line, the members
\* under order[1], the members under order[2], the blocks of the sub-packages, the closing
\* line
PackageBlocks(packages, order) ==
    IF packages = <<>> THEN <<>>
    ELSE << "package \"" \o Head(packages).name \o "\" as " \o Head(packages).alias \o " {" >>
         \o MemberLines(Head(packages), order[1])
         \o MemberLines(Head(packages), order[2])
         \o PackageBlocks(Get(Head(packages), "packages", <<>>), order)
         \o << "}" >>
         \o PackageBlocks(Tail(packages), order)

\* the text between the two markers
Between(code) == SubSeq(code.text, 2, Len(code.text) - 1)

\* C23 as stated: the text of a use case diagram is the top-level actors, then the
\* top-level use cases, then the relationships, then the package blocks, and a package
\* block holds the package's actors, then its use cases, then its sub-packages.
C23_RelationshipsBeforePackages ==
    UseCaseDiagramGenerated
        => Between(puml) = MemberLines(diagram, "actors")
                           \o MemberLines(diagram, "useCases")
                           \o MemberLines(diagram, "relationships")
                           \o PackageBlocks(Get(diagram, "packages", <<>>),
                                            << "actors", "useCases" >>)

\* C23 amended: the text of a use case diagram is the top-level actors, then the top-level
\* use cases, then the package blocks, then the relationships, and a package block holds
\* the package's use cases, then its actors, then its sub-packages.
C23_PackagesBeforeRelationships ==
    UseCaseDiagramGenerated
        => Between(puml) = MemberLines(diagram, "actors")
                           \o MemberLines(diagram, "useCases")
                           \o PackageBlocks(Get(diagram, "packages", <<>>),
                                            << "useCases", "actors" >>)
                           \o MemberLines(diagram, "relationships")

\* C23 witness: a diagram with an actor, a use case, a relationship and a package that has
\* a use case, an actor and a sub-package has been generated
C23_AllSectionsGenerated ==
    /\ UseCaseDiagramGenerated
    /\ MemberLines(diagram, "actors") # <<>>
    /\ MemberLines(diagram, "useCases") # <<>>
    /\ MemberLines(diagram, "relationships") # <<>>
    /\ \E k \in 1..Len(Get(diagram, "packages", <<>>)) :
          /\ MemberLines(diagram.packages[k], "actors") # <<>>
          /\ MemberLines(diagram.packages[k], "useCases") # <<>>
          /\ Get(diagram.packages[k], "packages", <<>>) # <<>>

RECURSIVE NodesOf(_)
\* the package nodes of a list of packages, at every depth
NodesOf(packages) ==
    IF packages = <<>> THEN {}
    ELSE {Head(packages)} \cup NodesOf(Get(Head(packages), "packages", <<>>))
         \cup NodesOf(Tail(packages))

\* the line that opens the block of a package
OpeningLine(package) == "package \"" \o package.name \o "\" as " \o package.alias \o " {"

OpeningLines == {OpeningLine(package) : package \in NodesOf(Get(diagram, "packages", <<>>))}

RECURSIVE LeadingMembers(_)
\* the lines at the start of a text that neither open nor close a block
LeadingMembers(lines) ==
    IF lines = <<>> \/ Head(lines) = "}" \/ Head(lines) \in OpeningLines THEN <<>>
    ELSE << Head(lines) >> \o LeadingMembers(Tail(lines))

RECURSIVE ParseBlocks(_)
\* the blocks read from the start of a text: for each an opening line, the member lines
\* that follow it, the blocks nested in it and its closing line; `rest` is what follows the
\* last block read, `balanced` says that every block read has its closing line
ParseBlocks(lines) ==
    IF lines = <<>> \/ Head(lines) \notin OpeningLines
    THEN [blocks |-> <<>>, rest |-> lines, balanced |-> TRUE]
    ELSE \* a choice from a set of one, so that each part is computed once
         CHOOSE parsed \in
            UNION { UNION { { IF inner.rest = <<>> \/ Head(inner.rest) # "}"
                              THEN [blocks |-> <<>>, rest |-> lines, balanced |-> FALSE]
                              ELSE [blocks |-> << [opening |-> Head(lines),
                                                   members |-> members,
                                                   nested |-> inner.blocks] >>
                                                \o siblings.blocks,
                                    rest |-> siblings.rest,
                                    balanced |-> inner.balanced /\ siblings.balanced] :
                              siblings \in {IF inner.rest = <<>> THEN inner
                                            ELSE ParseBlocks(Tail(inner.rest))} } :
                            inner \in {ParseBlocks(SubSeq(lines, Len(members) + 2,
                                                          Len(lines)))} } :
                    members \in {LeadingMembers(Tail(lines))} } : TRUE

RECURSIVE BlocksOf(_, _)
\* the blocks a list of packages should give: the opening line of each package, the lines
\* of its members when `emitted`, one entry per listed member otherwise, and the blocks of
\* its sub-packages, in the order of the list
BlocksOf(packages, emitted) ==
    IF packages = <<>> THEN <<>>
    ELSE << [ opening |-> OpeningLine(Head(packages)),
              members |-> IF emitted
                          THEN Len(MemberLines(Head(packages), "useCases"))
                               + Len(MemberLines(Head(packages), "actors"))
                          ELSE Len(Get(Head(packages), "useCases", <<>>))
                               + Len(Get(Head(packages), "actors", <<>>)),
              nested |-> BlocksOf(Get(Head(packages), "packages", <<>>), emitted) ] >>
         \o BlocksOf(Tail(packages), emitted)

RECURSIVE Counted(_)
\* the blocks read, the member lines of each replaced by their number
Counted(blocks) ==
    [k \in 1..Len(blocks) |->
        [opening |-> blocks[k].opening, members |-> Len(blocks[k].members),
         nested |-> Counted(blocks[k].nested)]]

RECURSIVE MembersInside(_, _)
\* every member line read in a block is the line of a use case or an actor of the package
\* at the same place of the input
MembersInside(blocks, packages) ==
    /\ Len(blocks) = Len(packages)
    /\ \A k \in 1..Len(blocks) :
          /\ Range(blocks[k].members)
                = Range(MemberLines(packages[k], "useCases"))
                  \cup Range(MemberLines(packages[k], "actors"))
          /\ MembersInside(blocks[k].nested, Get(packages[k], "packages", <<>>))

\* the text after the top-level actors and use cases
FromPackages ==
    SubSeq(puml.text,
           2 + Len(MemberLines(diagram, "actors")) + Len(MemberLines(diagram, "useCases")),
           Len(puml.text) - 1)

\* the number of lines of a text equal to one of a set
Occurrences(text, lines) == Cardinality({k \in 1..Len(text) : text[k] \in lines})

AnalyzedFor(u) == calls' = calls + 1 /\ call'.user_id = u

\* the step is a return of clear_user_context(u)
ClearedFor(u) == "cleared" \in DOMAIN call' /\ call'.user_id = u /\ call' # call

\* s is an initial part of t
IsPrefix(s, t) == Len(s) <= Len(t) /\ SubSeq(t, 1, Len(s)) = s

\* the user's dict as a call finds it: a new user gets the dict of lines 86-93
EntryOrNew(u) == IF conversation_context[u] = 0 THEN NewContext ELSE get_user_context(u)

\* C25: every analyze_conversation call for a user raises that user's interaction_count by
\* exactly 1 and appends exactly the call's text to messages; no step other than a clear of
\* the user lowers the count or removes or changes a message; interaction_count is always
\* the length of messages.
C25_CountAndMessagesGrowTogether ==
    [][ \A u \in Users :
          /\ AnalyzedFor(u)
                => /\ conversation_context'[u] # 0
                   /\ get_user_context(u)'.interaction_count = EntryOrNew(u).interaction_count + 1
                   /\ get_user_context(u)'.messages = Append(EntryOrNew(u).messages, call'.text)
          /\ (conversation_context[u] # 0 /\ ~ClearedFor(u))
                => /\ conversation_context'[u] # 0
                   /\ get_user_context(u)'.interaction_count >= get_user_context(u).interaction_count
                   /\ IsPrefix(get_user_context(u).messages, get_user_context(u)'.messages)
          /\ conversation_context'[u] # 0
                => get_user_context(u)'.interaction_count = Len(get_user_context(u)'.messages)
      ]_vars

\* C25 witness: a user's fourth call has returned, the third since the user's entry was
\* cleared, and the entry holds three messages
C25_ThreeCallsSinceClear ==
    \E u \in Users :
        /\ "text" \in DOMAIN call /\ call.user_id = u
        /\ Len(returned[u]) = 4
        /\ conversation_context[u] # 0
        /\ get_user_context(u).interaction_count = 3
        /\ Len(get_user_context(u).messages) = 3

\* the step is a return of get_user_context(u)
GotFor(u) == "got" \in DOMAIN call' /\ call'.user_id = u

\* C26: clear_user_context(u) removes u's entry and leaves every other entry and its dict
\* as they were, and changes nothing when u has no entry; get_user_context changes nothing
\* and returns None for a user without entry; and a call of analyze_conversation for a user
\* without entry, cleared or never seen, finds the contextual signal 'unknown' at 0.0,
\* returns what it returns without the follow-up flag, and leaves interaction_count 1 and
\* one confidence in confidence_history.
C26_ClearRestoresFirstContact ==
    [][ \A u \in Users :
          /\ ClearedFor(u)
                => /\ conversation_context'[u] = 0
                   /\ \A v \in Users \ {u} :
                         /\ conversation_context'[v] = conversation_context[v]
                         /\ get_user_context(v)' = get_user_context(v)
                   /\ conversation_context[u] = 0
                         => conversation_context' = conversation_context /\ heap' = heap
          /\ GotFor(u)
                => /\ conversation_context' = conversation_context /\ heap' = heap
                   /\ conversation_context[u] = 0 => ret'.value = NoDict
                   /\ conversation_context[u] # 0 => ret'.value = get_user_context(u)
          /\ (AnalyzedFor(u) /\ conversation_context[u] = 0)
                => /\ call'.context = record_message(NewContext, call'.text)
                   /\ _contextual_analysis(call'.text, call'.context).intent = "unknown"
                   /\ _contextual_analysis(call'.text, call'.context).confidence = Dec(0)
                   /\ ret' = final_result(call'.context, call'.text, FALSE)
                   /\ get_user_context(u)'.interaction_count = 1
                   /\ Len(get_user_context(u)'.confidence_history) = 1
                   /\ get_user_context(u)'.messages = << call'.text >>
      ]_vars

\* C26 witness: a follow-up call has returned for a user whose entry had been cleared after
\* an earlier call, while the other user's entry, two calls old, is still there
C26_FollowUpAfterClear ==
    \E u \in Users : \E v \in Users \ {u} :
        /\ "text" \in DOMAIN call /\ call.user_id = u /\ call.is_follow_up
        /\ Len(returned[u]) = 2
        /\ get_user_context(u).interaction_count = 1
        /\ conversation_context[v] # 0
        /\ get_user_context(v).interaction_count = 2

C28_AmbiguousIsNeverAVote ==
    CallReturned
        => /\ \A k \in 1..4 : SignalsOf(ret)[k].intent # "ambiguous"
           /\ ret.intent = "ambiguous"
                 => ret.method = "ambiguous_detection" /\ "ambiguity_reason" \in DOMAIN ret
           /\ ret.method = "combined_analysis"
                 => ret.intent \in {"diagrama_clases", "diagrama_casos_uso"}

(***************************************************************************)
(* Properties of the chat handlers.                                        *)
(***************************************************************************)
\* the steps of the request with this call name
StepsCalled(name) == SelectSeq(steps', LAMBDA step : step.call = name)

\* C29: a chat_text or ws_chat request classifies its text once: it raises the user's
\* interaction_count by 1 and appends one message; and when the classification made with
\* the request's follow-up flag passes the gate and a diagram is rendered, the type given to
\* the extraction and the analysis sent to the client are those of that classification.
C29_RequestClassifiesOnce ==
    [][ calls' # calls
          => \E u \in {call'.user_id} :
                /\ Len(StepsCalled("analyze_conversation")) = 1
                /\ get_user_context(u)'.interaction_count = EntryOrNew(u).interaction_count + 1
                /\ get_user_context(u)'.messages = Append(EntryOrNew(u).messages, call'.text)
                /\ (~needs_clarification(call'.intent_result) /\ "svg" \in DOMAIN reply')
                      => /\ reply'.analysis = call'.intent_result
                         /\ \A k \in DOMAIN StepsCalled("build_json_for_decoder") :
                               StepsCalled("build_json_for_decoder")[k].diagram_type
                                  = call'.intent_result.intent
      ]_vars

(***************************************************************************)
(* Properties of concurrent renderings.                                    *)
(***************************************************************************)
\* the texts the call that returned last built its JsonPuml objects with
TextsOfCall ==
    {steps[k]._code.text : k \in {j \in DOMAIN steps : steps[j].call = "JsonPuml"}}

\* C30: a call that returns an 'svg' returns the rendering of the text generated from its
\* own model; and from the moment a call has written its DSL file until it reads the SVG
\* back, the DSL file holds its text, and once rendered the SVG file holds its rendering.
C30_OwnRenderingReturned ==
    /\ "svg" \in DOMAIN reply
          => reply.svg \in {[rendering_of |-> text] : text \in TextsOfCall}
    /\ \A w \in Threads :
          /\ th[w].pc \in {"plantuml", "svg", "read"} => files.puml = th[w]._code
          /\ th[w].pc = "read" => files.svg = [rendering_of |-> th[w]._code]

====
